---- MODULE Spec2Model ----
(***************************************************************************)
(* Two-tier IPAM of multus-hc: lease blocks claimed in etcd ("the          *)
(* coordinator"), a node-local cache of the blocks, and per-IP assignment  *)
(* files.  The repository holds two generations of the code:               *)
(*   host-etcd   : host-etcd/backend/etcdv3/etcdv3.go + its plugin main    *)
(*   multus-ipam : multus-ipam/backend/etcdv3cli/cli.go + etcdv3/etcdv3.go *)
(* Both are modelled; each has its own specification below.                *)
(*                                                                         *)
(* IPv4 addresses are the uint32 values the code computes with.            *)
(***************************************************************************)
EXTENDS Integers, Sequences, FiniteSets, TLC

VARIABLES
    \* ---- host-etcd coordinator and ApplyNewIPRange calls
    hkv,        \* etcd keys under multus/<network>/ : <<begin, end>> -> owner
    rev,        \* etcd store revision
    hpc,        \* per node: position inside ApplyNewIPRange
    hTry,       \* per node: loop counter i of ApplyNewIPRange
    hSnap,      \* per node: the keys of getResp.Kvs in GetFreeIPRange
    hBlk,       \* per node: <<IPBegin, IPEnd>> of the current attempt
    hPutRev,    \* per node: putResp.Header.Revision of the current attempt
    hRet,       \* per node: what the last finished ApplyNewIPRange returned
    hCalls,     \* per node: number of ApplyNewIPRange calls started
    hHeld,      \* per node: the blocks ApplyNewIPRange has returned to it
    hNetwork,   \* the argument network of the ApplyNewIPRange calls, as its
                \* fields between the '-' of the name
    subnet,     \* subnet.IP of the network configuration, as a number
    \* ---- multus-ipam coordinator client (etcdv3/etcdv3.go)
    ckv,        \* etcd keys: [dir, ips, n] -> value (a node id)
    cmutex,     \* held concurrency.Mutex keys: mutex path -> holder
    tpc,        \* per client: position inside TransPutKey / TransDelKey
    tOp,        \* per client: "put" or "del"
    tKey,       \* per client: the key argument
    tVal,       \* per client: the value argument
    tNoExist,   \* per client: the noExist argument
    tErr,       \* per client: the error the call returns
    tWho,       \* per client: the caller waiting for the return
    tKeys,      \* per client: the keys TransDelKeys has still to delete
    tLog,       \* finished direct calls: [client, key, err]
    \* ---- multus-ipam lease manager (etcdv3cli/cli.go)
    leaseDir,   \* per node: the package variable leaseDir of its process
    apc,        \* per node: position inside IPAMApplyIPRange
    aSnap,      \* per node: the keys of resp.Kvs in ipamGetFreeIPRange
    aRs,        \* per node: the range ipamGetFreeIPRange returned
    aRet,       \* per node: what the last finished IPAMApplyIPRange returned
    aCalls,     \* per node: number of IPAMApplyIPRange calls started
    \* ---- node-local store and the reconciler (IPAMCheck, ipamCheckNet)
    cache,      \* per node: the lines of the cache file, as <<start, end>>
    kpc,        \* per node: position inside IPAMCheck
    oCache,     \* per node: the cache file of the store of the other network
    kMap,       \* per node: the map leases of IPAMCheck, the networks that
                \* the loop has not visited yet
    kNet,       \* per node: the argument network of ipamCheckNet
    kLeases,    \* per node: the argument leases of ipamCheckNet
    kCaches,    \* per node: the slice caches of ipamCheckNet
    kIdx,       \* per node: index of the loop of ipamCheckNet under way
    kRuns,      \* per node: number of IPAMCheck calls finished
    kRet,       \* per node: what the last finished IPAMCheck returned
    kSkipped,   \* per node: the networks whose ipamCheckNet returned at an
                \* error of the store, in the last IPAMCheck
    \* ---- node-local store: assignment files, and the plugin's ADD and DEL
    files,      \* per node: the IP files, ip -> container ID in the file
    hint,       \* per node: last_reserved_ip.0, or NoIP
    slock,      \* per node: holder of the store lock
    cstate,     \* per container: "new", "alive" or "gone" in the runtime
    dpc,        \* per node: position inside cmdAdd
    dCid,       \* per node: args.ContainerID of the cmdAdd under way
    dRss,       \* per node: rss[0] of allocateIP
    dRet,       \* per node: what the last finished cmdAdd returned
    dAcq,       \* per node: calls of ApplyNewIPRange in the cmdAdd under way
    dHeld,      \* per node: ip -> container, as written by cmdAdd and not
                \* released by cmdDel since
    \* ---- container-liveness sweep (dockercli.IPAMCheckLocalIPs)
    spc,        \* per node: position inside IPAMCheckLocalIPs
    sLeases,    \* per node: entries of the map leases not yet visited
    sCur,       \* per node: <<f, id>> of the loop
    sRuns,      \* per node: number of IPAMCheckLocalIPs calls started
    sLog,       \* what the sweep did under the lock:
                \* [node, f, id, curID, listed, removed]
    \* ---- multus-ipam plugin: the retry loop of allocateIP
    mTry,       \* per node: loop counter i of allocateIP
    mHist,      \* per node: the cmdAdd calls finished, in order:
                \* [st, ip, acq, cache]
    \* ---- functions applied on their own
    ppc,        \* which function, or "none"
    pIn,        \* its arguments
    pOut        \* its result

hvars ==
    <<hkv, rev, hpc, hTry, hSnap, hBlk, hPutRev, hRet, hCalls, hHeld, hNetwork,
      subnet>>

tvars == <<ckv, cmutex, tpc, tOp, tKey, tVal, tNoExist, tErr, tWho, tKeys, tLog>>

avars == <<leaseDir, apc, aSnap, aRs, aRet, aCalls>>

kvars == <<cache, oCache, kpc, kMap, kNet, kLeases, kCaches, kIdx, kRuns, kRet, kSkipped>>

dvars == <<files, hint, slock, cstate, dpc, dCid, dRss, dRet, dAcq, dHeld>>

svars == <<spc, sLeases, sCur, sRuns, sLog>>

mvars == <<mTry, mHist>>

pvars == <<ppc, pIn, pOut>>

vars == <<hvars, tvars, avars, kvars, dvars, svars, mvars, pvars>>

\* what the actions of one part of the program leave alone
hostRest == <<hNetwork, subnet, tvars, avars, kvars, dvars, svars, mvars, pvars>>
transRest == <<hvars, avars, kvars, dvars, svars, mvars, pvars>>
applyRest == <<hvars, kvars, dvars, svars, mvars, pvars>>
checkRest == <<hvars, apc, aSnap, aRs, aRet, aCalls, dvars, svars, mvars, pvars>>
addRest ==
    <<hNetwork, subnet, tvars, avars, oCache, kpc, kMap, kNet, kLeases, kCaches, kIdx,
      kRuns, kRet, kSkipped, svars, mvars, pvars>>
sweepRest == <<hvars, tvars, avars, kvars, mvars, pvars>>
pureRest == <<hvars, tvars, avars, kvars, dvars, svars, mvars>>

\* no function is applied on its own
PureInit ==
    /\ ppc = "none"
    /\ pIn = <<>>
    /\ pOut = <<>>

-----------------------------------------------------------------------------
(* Nodes and the configured subnet *)

Node == {"n1", "n2"}

\* 100.64.0.0/28, the subnet the nodes are configured with
SubnetIP == 1681915904

\* 10.0.0.0, the subnet of the documentation
ExampleSubnetIP == 167772160
HostBits == 4

\* ^mask of GetFreeIPRange, as a number
HostMask == 2 ^ HostBits - 1

\* ipamConf.ApplyUnit as host-etcd uses it: a number of addresses
ApplyUnit == 4

\* calls of ApplyNewIPRange one node makes in a run of the model
MaxCalls == 2

Min(a, b) == IF a < b THEN a ELSE b
Max(a, b) == IF a > b THEN a ELSE b

\* uint32 values.  The integers of the model are 32 bits wide and signed, so
\* a uint32 value from 2^31 on is held as the value minus 2^32 (4294967295 is
\* held as -1); the operators below compute on the two 16-bit halves of the
\* value and are the uint32 operations of Go, modulo 2^32.
U32Hi(a) == (a \div 2 ^ 16) % 2 ^ 16
U32Lo(a) == a % 2 ^ 16
U32Make(hi, lo) == (IF hi >= 2 ^ 15 THEN hi - 2 ^ 16 ELSE hi) * 2 ^ 16 + lo

\* uint32(a + b)
U32Add(a, b) ==
    LET lo == U32Lo(a) + U32Lo(b)
        hi == U32Hi(a) + U32Hi(b) + lo \div 2 ^ 16
    IN  U32Make(hi % 2 ^ 16, lo % 2 ^ 16)

\* uint32(a - b)
U32Sub(a, b) ==
    LET lo == U32Lo(a) - U32Lo(b)
        hi == U32Hi(a) - U32Hi(b) + lo \div 2 ^ 16
    IN  U32Make(hi % 2 ^ 16, lo % 2 ^ 16)

\* a < b and a <= b of two uint32
U32Less(a, b) ==
    U32Hi(a) < U32Hi(b) \/ (U32Hi(a) = U32Hi(b) /\ U32Lo(a) < U32Lo(b))
U32Le(a, b) == a = b \/ U32Less(a, b)

\* uint32(a - b) < c, likewise
Uint32SubLt(a, b, c) == IF a >= b THEN a - b < c ELSE FALSE

-----------------------------------------------------------------------------
(* host-etcd: key format *)

maxApplyTry == 3

\* fmt "%10d" pads with blanks up to width 10; strconv.ParseUint rejects a
\* string with blanks and the code ignores the error, keeping 0.
DecimalWidth == 10
ParsePadded(x) == IF ~U32Less(x, 10 ^ (DecimalWidth - 1)) THEN x ELSE 0

\* network names, as the fields strings.Split(name, "-") gives: the name of
\* a plugin configuration, and "mac-vlan-1" of main()
PluginNetwork == <<"net1">>
MainNetwork == <<"mac", "vlan", "1">>
HostNetworks == {PluginNetwork, MainNetwork}

\* strconv.ParseUint of a text that holds a field of a network name: the
\* fields of the names above that are parsed are no numbers; the error is
\* dropped and the value is 0
ParseNameField(f) == 0

\* the key of a block is keyDir + "/" + claimKey, with keyDir = rootKeyDir +
\* "/" + network and claimKey of keyTemplate "%10d-%10d"; GetFreeIPRange
\* splits the whole key at "-".  IPRange[0] after its last "/" is the begin
\* of the block only when the network name holds no "-"; otherwise it is the
\* first field of the name
hostKeyBegin(network, k) ==
    IF Len(network) = 1 THEN ParsePadded(k[1]) ELSE ParseNameField(network[1])

\* IPRange[1]: the end of the block when the network name holds no "-";
\* otherwise the second field of the name (followed by "/" and the begin
\* when the name has two fields)
hostKeyEnd(network, k) ==
    IF Len(network) = 1 THEN ParsePadded(k[2]) ELSE ParseNameField(network[2])

\* WithSort(SortByKey, SortAscend) on keys "%10d-%10d" of one directory:
\* begin, then end (a blank sorts before the digits)
hostKeyLess(a, b) == U32Less(a[1], b[1]) \/ (a[1] = b[1] /\ U32Less(a[2], b[2]))

RECURSIVE hostSortedKeys(_)
hostSortedKeys(S) ==
    IF S = {} THEN <<>>
    ELSE LET m == CHOOSE x \in S : \A y \in S \ {x} : hostKeyLess(x, y)
         IN  <<m>> \o hostSortedKeys(S \ {m})

-----------------------------------------------------------------------------
(* host-etcd: GetFreeIPRange *)

bIP == subnet + 1
eIP == bIP + HostMask - 1

NoRange == [err |-> TRUE, b |-> 0, e |-> 0]

\* block := eIP - lastIP; if block > unit { block = unit }
TailBlock(lastIP, unit) ==
    LET block == U32Sub(eIP, lastIP)
    IN  IF U32Less(unit, block) THEN unit ELSE block

\* the loop over getResp.Kvs and the tail after it, in uint32
RECURSIVE GetFreeIPRangeWalk(_, _, _, _)
GetFreeIPRangeWalk(network, keys, lastIP, unit) ==
    IF keys = <<>>
    THEN IF U32Less(lastIP, eIP)
         THEN [err |-> FALSE, b |-> U32Add(lastIP, 1),
               e |-> U32Add(lastIP, TailBlock(lastIP, unit))]
         ELSE NoRange
    ELSE LET IPRangeBegin == hostKeyBegin(network, Head(keys))
         IN  IF U32Le(U32Sub(IPRangeBegin, lastIP), 1)
             THEN GetFreeIPRangeWalk(network, Tail(keys),
                                     hostKeyEnd(network, Head(keys)), unit)
             ELSE [err |-> FALSE, b |-> U32Add(lastIP, 1),
                   e |-> U32Sub(IPRangeBegin, 1)]

GetFreeIPRange(network, kv, unit) ==
    GetFreeIPRangeWalk(network, hostSortedKeys(DOMAIN kv), bIP, unit)

-----------------------------------------------------------------------------
(* host-etcd: ApplyNewIPRange, one action per etcd request *)

Idle == [st |-> "none", b |-> 0, e |-> 0]
Granted(b, e) == [st |-> "ok", b |-> b, e |-> e]
Failed == [st |-> "err", b |-> 0, e |-> 0]
\* return nil, nil, err with the error of cli.Put or cli.Get
RequestFailed == [st |-> "fail", b |-> 0, e |-> 0]

\* the node is not inside ApplyNewIPRange
HostIdle(n) == hpc[n] = "idle"

\* entry of ApplyNewIPRange: the loop starts with i = 1
HostEnter(n) ==
    /\ hpc' = [hpc EXCEPT ![n] = "free"]
    /\ hTry' = [hTry EXCEPT ![n] = 1]
    /\ hRet' = [hRet EXCEPT ![n] = Idle]
    /\ hCalls' = [hCalls EXCEPT ![n] = @ + 1]

\* a direct call of ApplyNewIPRange, as main() of host-etcd/backend/etcdv3
\* makes it, for the network of the run
HostMain(n) ==
    /\ HostIdle(n)
    /\ hCalls[n] < MaxCalls
    /\ HostEnter(n)
    /\ UNCHANGED <<hkv, rev, hSnap, hBlk, hPutRev, hHeld>>
    /\ UNCHANGED hostRest

\* GetFreeIPRange(cli, keyDir, subnet, unit) inside the loop
HostGetFree(n) ==
    /\ hpc[n] = "free"
    /\ hSnap' = [hSnap EXCEPT ![n] = DOMAIN hkv]
    /\ LET r == GetFreeIPRange(hNetwork, hkv, ApplyUnit)
       IN  IF r.err
           THEN /\ hpc' = [hpc EXCEPT ![n] = "idle"]
                /\ hRet' = [hRet EXCEPT ![n] = Failed]
                /\ UNCHANGED hBlk
           ELSE /\ hpc' = [hpc EXCEPT ![n] = "put"]
                /\ hBlk' = [hBlk EXCEPT ![n] = <<r.b, r.e>>]
                /\ UNCHANGED hRet
    /\ UNCHANGED <<hkv, rev, hTry, hPutRev, hCalls, hHeld>>
    /\ UNCHANGED hostRest

\* cli.Put(keyDir + "/" + claimKey, nodeName): unconditional
HostPutValue(kv, k, n) == [x \in DOMAIN kv \cup {k} |-> IF x = k THEN n ELSE kv[x]]

\* the Put of the claim key; or cli.Put returns an error and the call
\* returns it
HostPut(n) ==
    /\ hpc[n] = "put"
    /\ \/ /\ hkv' = HostPutValue(hkv, hBlk[n], n)
          /\ rev' = rev + 1
          /\ hPutRev' = [hPutRev EXCEPT ![n] = rev + 1]
          /\ hpc' = [hpc EXCEPT ![n] = "verify"]
          /\ UNCHANGED hRet
       \/ /\ hpc' = [hpc EXCEPT ![n] = "idle"]
          /\ hRet' = [hRet EXCEPT ![n] = RequestFailed]
          /\ UNCHANGED <<hkv, rev, hPutRev>>
    /\ UNCHANGED <<hTry, hSnap, hBlk, hCalls, hHeld>>
    /\ UNCHANGED hostRest

\* putResp.Header.Revision == getResp.Header.Revision
HostOwnershipVerified(putRev, getRev) == putRev = getRev

\* cli.Get of the claimed key and the comparison of the revisions; or
\* cli.Get returns an error and the call returns it, the key staying
HostVerify(n) ==
    /\ hpc[n] = "verify"
    /\ \/ IF HostOwnershipVerified(hPutRev[n], rev)
          THEN /\ hpc' = [hpc EXCEPT ![n] = "idle"]
               /\ hRet' = [hRet EXCEPT ![n] = Granted(hBlk[n][1], hBlk[n][2])]
               /\ hHeld' = [hHeld EXCEPT ![n] = @ \cup {hBlk[n]}]
               /\ UNCHANGED hTry
          ELSE IF hTry[n] < maxApplyTry
               THEN /\ hpc' = [hpc EXCEPT ![n] = "free"]
                    /\ hTry' = [hTry EXCEPT ![n] = @ + 1]
                    /\ UNCHANGED <<hRet, hHeld>>
               ELSE /\ hpc' = [hpc EXCEPT ![n] = "idle"]
                    /\ hRet' = [hRet EXCEPT ![n] = Failed]
                    /\ UNCHANGED <<hTry, hHeld>>
       \/ /\ hpc' = [hpc EXCEPT ![n] = "idle"]
          /\ hRet' = [hRet EXCEPT ![n] = RequestFailed]
          /\ UNCHANGED <<hTry, hHeld>>
    /\ UNCHANGED <<hkv, rev, hSnap, hBlk, hPutRev, hCalls>>
    /\ UNCHANGED hostRest

\* no node is inside ApplyNewIPRange
HostCallsInit ==
    /\ hpc = [n \in Node |-> "idle"]
    /\ hTry = [n \in Node |-> 0]
    /\ hSnap = [n \in Node |-> {}]
    /\ hBlk = [n \in Node |-> <<0, 0>>]
    /\ hPutRev = [n \in Node |-> 0]
    /\ hRet = [n \in Node |-> Idle]
    /\ hCalls = [n \in Node |-> 0]
    /\ hHeld = [n \in Node |-> {}]

\* an empty network of a plugin configuration
HostInitOn(ip) ==
    /\ hkv = << >>
    /\ rev = 1
    /\ hNetwork = PluginNetwork
    /\ subnet = ip
    /\ HostCallsInit

HostInit == HostInitOn(SubnetIP)

-----------------------------------------------------------------------------
(* multus-ipam: paths and lease keys *)

\* filepath.Join on paths kept as sequences of segments
Join(a, b) == a \o b

\* ETCD_ROOT_DIR default
defaultEtcdRootDir == <<"multus">>

\* var leaseDir = "lease"
initialLeaseDir == <<"lease">>

\* the lease directory of a network: <rootKey>/lease/<network>
NetworkName == "net1"
ApplyKeyDir == Join(Join(defaultEtcdRootDir, initialLeaseDir), <<NetworkName>>)

\* a second network of the cluster, with its lease directory
OtherNetworkName == "net10"
OtherKeyDir == Join(Join(defaultEtcdRootDir, initialLeaseDir), <<OtherNetworkName>>)

\* <rootKey>/lease/<networkName> of a network
NetworkKeyDir(network) ==
    Join(Join(defaultEtcdRootDir, initialLeaseDir), <<network>>)

\* filepath.Join(keyDir, fmt.Sprintf("%010d-%d", ips, n))
LeaseKey(keyDir, ips, n) == [dir |-> keyDir, ips |-> ips, n |-> n]

\* KeyToMutex: the directory of the key with "mutex" after its first segment
KeyToMutex(key) == <<Head(key.dir), "mutex">> \o Tail(key.dir)

-----------------------------------------------------------------------------
(* multus-ipam: TransPutKey and TransDelKey, one action per etcd request *)

Client == Node

\* a node that is no client of the model and wrote its keys beforehand
OtherNode == "n0"

\* what the caller can tell from the returned error
ErrorKind(err) == IF err \in {"nil", "exists"} THEN err ELSE "failed"

NoKey == LeaseKey(<<>>, 0, 0)

TransIdle(c) == tpc[c] = "idle"

\* entry of TransPutKey(cli, key, value, noExist) for caller who
TransPutEnter(c, key, value, noExist, who) ==
    /\ tpc' = [tpc EXCEPT ![c] = "session"]
    /\ tOp' = [tOp EXCEPT ![c] = "put"]
    /\ tKey' = [tKey EXCEPT ![c] = key]
    /\ tVal' = [tVal EXCEPT ![c] = value]
    /\ tNoExist' = [tNoExist EXCEPT ![c] = noExist]
    /\ tErr' = [tErr EXCEPT ![c] = "nil"]
    /\ tWho' = [tWho EXCEPT ![c] = who]

\* entry of TransDelKey(cli, key) for caller who
TransDelEnter(c, key, who) ==
    /\ tpc' = [tpc EXCEPT ![c] = "session"]
    /\ tOp' = [tOp EXCEPT ![c] = "del"]
    /\ tKey' = [tKey EXCEPT ![c] = key]
    /\ tVal' = [tVal EXCEPT ![c] = "none"]
    /\ tNoExist' = [tNoExist EXCEPT ![c] = FALSE]
    /\ tErr' = [tErr EXCEPT ![c] = "nil"]
    /\ tWho' = [tWho EXCEPT ![c] = who]

\* concurrency.NewSession(cli): on an error the call returns at once
TransSession(c) ==
    /\ tpc[c] = "session"
    /\ \/ /\ tpc' = [tpc EXCEPT ![c] = "lock"]
          /\ UNCHANGED tErr
       \/ /\ tpc' = [tpc EXCEPT ![c] = "done"]
          /\ tErr' = [tErr EXCEPT ![c] = "session"]
    /\ UNCHANGED <<ckv, cmutex, tOp, tKey, tVal, tNoExist, tWho, tKeys, tLog>>
    /\ UNCHANGED transRest

\* a Lock that does not wait for the holder
MutexFreeNoWait(mx, m) == TRUE

\* an Unlock that leaves the mutex key in place
MutexKept(mx, m) == mx

\* m.Lock blocks while another session holds the mutex
MutexFree(mx, m) == m \notin DOMAIN mx

MutexAcquire(mx, m, c) == [x \in DOMAIN mx \cup {m} |-> IF x = m THEN c ELSE mx[x]]

MutexRelease(mx, m) == [x \in DOMAIN mx \ {m} |-> mx[x]]

\* where the call goes once it holds the mutex
TransAfterLock(c) ==
    IF tOp[c] = "del" THEN "delete" ELSE IF tNoExist[c] THEN "get" ELSE "write"

TransLock(c) ==
    /\ tpc[c] = "lock"
    /\ \/ /\ MutexFree(cmutex, KeyToMutex(tKey[c]))
          /\ cmutex' = MutexAcquire(cmutex, KeyToMutex(tKey[c]), c)
          /\ tpc' = [tpc EXCEPT ![c] = TransAfterLock(c)]
          /\ UNCHANGED tErr
       \/ /\ tpc' = [tpc EXCEPT ![c] = "done"]
          /\ tErr' = [tErr EXCEPT ![c] = "lock"]
          /\ UNCHANGED cmutex
    /\ UNCHANGED <<ckv, tOp, tKey, tVal, tNoExist, tWho, tKeys, tLog>>
    /\ UNCHANGED transRest

\* if noExist: cli.Get(ctx, key); an error or a present key ends the call
TransGet(c) ==
    /\ tpc[c] = "get"
    /\ \/ IF tKey[c] \in DOMAIN ckv
          THEN /\ tpc' = [tpc EXCEPT ![c] = "unlock"]
               /\ tErr' = [tErr EXCEPT ![c] = "exists"]
          ELSE /\ tpc' = [tpc EXCEPT ![c] = "write"]
               /\ UNCHANGED tErr
       \/ /\ tpc' = [tpc EXCEPT ![c] = "unlock"]
          /\ tErr' = [tErr EXCEPT ![c] = "get"]
    /\ UNCHANGED <<ckv, cmutex, tOp, tKey, tVal, tNoExist, tWho, tKeys, tLog>>
    /\ UNCHANGED transRest

KvPut(kv, k, v) == [x \in DOMAIN kv \cup {k} |-> IF x = k THEN v ELSE kv[x]]

KvDelete(kv, k) == [x \in DOMAIN kv \ {k} |-> kv[x]]

\* cli.Put(context.TODO(), key, value)
TransWrite(c) ==
    /\ tpc[c] = "write"
    /\ \/ /\ ckv' = KvPut(ckv, tKey[c], tVal[c])
          /\ UNCHANGED tErr
       \/ /\ tErr' = [tErr EXCEPT ![c] = "put"]
          /\ UNCHANGED ckv
    /\ tpc' = [tpc EXCEPT ![c] = "unlock"]
    /\ UNCHANGED <<cmutex, tOp, tKey, tVal, tNoExist, tWho, tKeys, tLog>>
    /\ UNCHANGED transRest

\* cli.Delete(context.TODO(), key)
TransDelete(c) ==
    /\ tpc[c] = "delete"
    /\ \/ /\ ckv' = KvDelete(ckv, tKey[c])
          /\ UNCHANGED tErr
       \/ /\ tErr' = [tErr EXCEPT ![c] = "delete"]
          /\ UNCHANGED ckv
    /\ tpc' = [tpc EXCEPT ![c] = "unlock"]
    /\ UNCHANGED <<cmutex, tOp, tKey, tVal, tNoExist, tWho, tKeys, tLog>>
    /\ UNCHANGED transRest

\* the deferred m.Unlock and s.Close: the mutex key is gone either way
TransUnlock(c) ==
    /\ tpc[c] = "unlock"
    /\ cmutex' = MutexRelease(cmutex, KeyToMutex(tKey[c]))
    /\ tpc' = [tpc EXCEPT ![c] = "done"]
    /\ UNCHANGED <<ckv, tOp, tKey, tVal, tNoExist, tErr, tWho, tKeys, tLog>>
    /\ UNCHANGED transRest

TransInit ==
    /\ cmutex = << >>
    /\ tpc = [c \in Client |-> "idle"]
    /\ tOp = [c \in Client |-> "put"]
    /\ tKey = [c \in Client |-> NoKey]
    /\ tVal = [c \in Client |-> "none"]
    /\ tNoExist = [c \in Client |-> FALSE]
    /\ tErr = [c \in Client |-> "nil"]
    /\ tWho = [c \in Client |-> "none"]
    /\ tKeys = [c \in Client |-> <<>>]
    /\ tLog = {}

-----------------------------------------------------------------------------
(* multus-ipam: helpers of packages ipaddr and allocator *)

\* ipaddr.Net4To2Uint32: first and last usable address of the subnet
Net4To2Uint32 == <<subnet + 1, subnet + HostMask - 1>>

\* ipaddr.Uint32AddSeg(ip, hostSize): the address 2^hostSize further
Uint32AddSeg(ip, hostSize) == ip + 2 ^ hostSize

\* SimpleRange.HostSize: the smallest n with end - start + 1 <= 2^n
RECURSIVE HostSizeFrom(_, _)
HostSizeFrom(size, n) == IF size <= 2 ^ n THEN n ELSE HostSizeFrom(size, n + 1)

HostSize(rs) == HostSizeFrom(rs[2] - rs[1] + 1, 0)

-----------------------------------------------------------------------------
(* multus-ipam: lease keys and ipamGetFreeIPRange *)

\* ipmaLeaseToUint32Range: <<IPStart, IPEnd>> of a key
ipmaLeaseToUint32Range(key) == <<key.ips, Uint32AddSeg(key.ips, key.n) - 1>>

\* ipamSimpleRangeToLease(keyDir, rs)
ipamSimpleRangeToLease(keyDir, rs) == LeaseKey(keyDir, rs[1], HostSize(rs))

\* names of the model of which one is a proper prefix of the other, as strings
ProperNamePrefix == {<<"net1", "net10">>}

StrHasPrefix(str, pre) == str = pre \/ <<pre, str>> \in ProperNamePrefix

\* clientv3.WithPrefix on the path prefix: the key starts with the string
KeyHasPrefix(key, prefix) ==
    /\ Len(prefix) <= Len(key.dir)
    /\ \A i \in 1 .. (Len(prefix) - 1) : key.dir[i] = prefix[i]
    /\ Len(prefix) > 0 => StrHasPrefix(key.dir[Len(prefix)], prefix[Len(prefix)])

ListPrefix(kv, prefix) == {k \in DOMAIN kv : KeyHasPrefix(k, prefix)}

\* the order of two directories as strings, followed by "/": a name that is
\* a proper prefix of another comes first ('/' sorts before the digits)
DirLess(d, e) == <<d[Len(d)], e[Len(e)]>> \in ProperNamePrefix

\* the digits of fmt "%d" of a number that is not negative
RECURSIVE DecimalText(_)
DecimalText(x) ==
    IF x < 10 THEN <<x>> ELSE Append(DecimalText(x \div 10), x % 10)

\* the order of two texts of digits as strings
RECURSIVE TextLess(_, _)
TextLess(s, t) ==
    IF t = <<>> THEN FALSE
    ELSE IF s = <<>> THEN TRUE
    ELSE IF Head(s) # Head(t) THEN Head(s) < Head(t)
    ELSE TextLess(Tail(s), Tail(t))

\* WithSort(SortByKey, SortAscend) on "%010d-%d" keys: by directory, inside
\* one directory by the start (ten digits, so in the order of the numbers)
\* and then by the text of the host size ("10" sorts before "2")
leaseKeyLess(a, b) ==
    IF a.dir = b.dir
    THEN a.ips < b.ips
         \/ (a.ips = b.ips /\ TextLess(DecimalText(a.n), DecimalText(b.n)))
    ELSE DirLess(a.dir, b.dir)

RECURSIVE leaseSortedKeys(_)
leaseSortedKeys(S) ==
    IF S = {} THEN <<>>
    ELSE LET m == CHOOSE x \in S : \A y \in S \ {x} : leaseKeyLess(x, y)
         IN  <<m>> \o leaseSortedKeys(S \ {m})

\* ipamConf.ApplyUnit as cli.go uses it: unit = 2^n addresses
ApplyUnitExp == 2

NoFreeRange == [err |-> TRUE, b |-> 0, e |-> 0]

\* the loop over resp.Kvs; after the loop the function returns an error
RECURSIVE ipamGetFreeIPRangeWalk(_, _, _)
ipamGetFreeIPRangeWalk(keys, last, unit) ==
    IF keys = <<>>
    THEN NoFreeRange
    ELSE LET r == ipmaLeaseToUint32Range(Head(keys))
         IN  IF r[1] = 0
             THEN ipamGetFreeIPRangeWalk(Tail(keys), last, unit)
             ELSE IF Uint32SubLt(r[1], last, unit)
                  THEN ipamGetFreeIPRangeWalk(Tail(keys), r[2] + 1, unit)
                  ELSE [err |-> FALSE, b |-> last, e |-> last + unit - 1]

\* last := ripe
ipamGetFreeIPRange(keys, n) ==
    ipamGetFreeIPRangeWalk(leaseSortedKeys(keys), Net4To2Uint32[2], 2 ^ n)

-----------------------------------------------------------------------------
(* multus-ipam: IPAMApplyIPRange *)

\* calls of IPAMApplyIPRange one node makes in a run of the model
MaxApplyCalls == 2

ApplyIdle(n) == apc[n] = "idle"

ApplyResult(st, rs) == [st |-> st, b |-> rs[1], e |-> rs[2]]

\* keyDir := filepath.Join(rKeyDir, leaseDir, netConf.Name)
keyDirOf(n, network) == Join(Join(defaultEtcdRootDir, leaseDir[n]), <<network>>)

\* entry of IPAMApplyIPRange(netConf, subnet)
IPAMApplyIPRange(n) ==
    /\ ApplyIdle(n)
    /\ TransIdle(n)
    /\ aCalls[n] < MaxApplyCalls
    /\ apc' = [apc EXCEPT ![n] = "list"]
    /\ aRet' = [aRet EXCEPT ![n] = ApplyResult("none", <<0, 0>>)]
    /\ aCalls' = [aCalls EXCEPT ![n] = @ + 1]
    /\ UNCHANGED <<leaseDir, aSnap, aRs>>
    /\ UNCHANGED <<tvars, applyRest>>

\* ipamGetFreeIPRange, and on success the call of TransPutKey; or the
\* cli.Get of the listing fails and IPAMApplyIPRange returns the error
ApplyGetFree(n) ==
    /\ apc[n] = "list"
    /\ \/ LET keys == ListPrefix(ckv, keyDirOf(n, NetworkName))
              r == ipamGetFreeIPRange(keys, ApplyUnitExp)
          IN  /\ aSnap' = [aSnap EXCEPT ![n] = keys]
              /\ IF r.err
                 THEN /\ apc' = [apc EXCEPT ![n] = "idle"]
                      /\ aRet' = [aRet EXCEPT ![n] = ApplyResult("nospace", <<0, 0>>)]
                      /\ UNCHANGED <<aRs, tpc, tOp, tKey, tVal, tNoExist, tErr, tWho, tKeys>>
                 ELSE /\ apc' = [apc EXCEPT ![n] = "write"]
                      /\ aRs' = [aRs EXCEPT ![n] = <<r.b, r.e>>]
                      /\ TransPutEnter(n, ipamSimpleRangeToLease(
                             keyDirOf(n, NetworkName), <<r.b, r.e>>), n, TRUE, "apply")
                      /\ UNCHANGED aRet
       \/ /\ apc' = [apc EXCEPT ![n] = "idle"]
          /\ aRet' = [aRet EXCEPT ![n] = ApplyResult("failed", <<0, 0>>)]
          /\ UNCHANGED <<aSnap, aRs, tpc, tOp, tKey, tVal, tNoExist, tErr, tWho, tKeys>>
    /\ UNCHANGED <<leaseDir, aCalls, ckv, cmutex, tKeys, tLog>>
    /\ UNCHANGED applyRest

\* the return of TransPutKey: any error fails the call
ApplyReturn(n) ==
    /\ apc[n] = "write"
    /\ tpc[n] = "done"
    /\ tWho[n] = "apply"
    /\ aRet' = [aRet EXCEPT ![n] =
          IF tErr[n] = "nil" THEN ApplyResult("ok", aRs[n])
          ELSE ApplyResult(ErrorKind(tErr[n]), <<0, 0>>)]
    /\ apc' = [apc EXCEPT ![n] = "idle"]
    /\ tpc' = [tpc EXCEPT ![n] = "idle"]
    /\ UNCHANGED <<leaseDir, aSnap, aRs, aCalls>>
    /\ UNCHANGED <<ckv, cmutex, tOp, tKey, tVal, tNoExist, tErr, tWho, tKeys, tLog>>
    /\ UNCHANGED applyRest

ApplyInit ==
    /\ leaseDir = [n \in Node |-> initialLeaseDir]
    /\ apc = [n \in Node |-> "idle"]
    /\ aSnap = [n \in Node |-> {}]
    /\ aRs = [n \in Node |-> <<0, 0>>]
    /\ aRet = [n \in Node |-> ApplyResult("none", <<0, 0>>)]
    /\ aCalls = [n \in Node |-> 0]

-----------------------------------------------------------------------------
(* Node-local store: the cache file (package disk) *)

\* SimpleRange.Overlaps and SimpleRange.Match
Overlaps(a, b) == a[1] <= b[2] /\ b[1] <= a[2]
Match(a, b) == a[1] = b[1] /\ a[2] = b[2]

SeqToSet(q) == {q[i] : i \in 1 .. Len(q)}

RECURSIVE SeqWithout(_, _)
SeqWithout(q, x) ==
    IF q = <<>> THEN <<>>
    ELSE IF Head(q) = x THEN SeqWithout(Tail(q), x)
         ELSE <<Head(q)>> \o SeqWithout(Tail(q), x)

\* Store.DeleteCache(r): the matching line is removed
DeleteCache(lines, r) == SeqWithout(lines, r)

\* Store.AppendCache(r): a new line at the end
AppendCache(lines, r) == Append(lines, r)

-----------------------------------------------------------------------------
(* Node-local store: the IP files, the hint and the lock (package disk), *)
(* and the allocator on top of it (package allocator)                    *)

NoIP == 0
NoID == "none"

\* container IDs the runtime hands out, and one of containers older than
\* the run of the model
ContainerID == {"c1", "c2", "c3"}
OldContainer == "c0"

\* the range of the configuration after Canonicalize, and its gateway
OriginRange == <<subnet + 1, subnet + HostMask - 1>>
Gateway == subnet + 1
Broadcast == subnet + HostMask

\* Range.Contains(addr)
Contains(r, ip) == U32Le(r[1], ip) /\ U32Le(ip, r[2])

\* the last address the walk of a range comes to: a range that ends after
\* the broadcast address of the subnet is walked as far as that address,
\* the runs of the model assigning fewer addresses than the subnet holds
WalkEnd(r) == IF U32Less(Broadcast, r[2]) THEN Broadcast ELSE r[2]

\* the addresses of a range and of a RangeSet, in allocation order
RangeIPs(r) == [i \in 1 .. (WalkEnd(r) - r[1] + 1) |-> r[1] + i - 1]

RECURSIVE RangeSetIPs(_)
RangeSetIPs(rs) ==
    IF rs = <<>> THEN <<>> ELSE RangeIPs(Head(rs)) \o RangeSetIPs(Tail(rs))

\* the order in which Get visits the addresses: from the one after the hint
\* when the hint lies in a range, wrapping round to the hint
GetOrder(rs, h) ==
    LET all == RangeSetIPs(rs)
        at == {i \in 1 .. Len(all) : all[i] = h}
    IN  IF at = {} THEN all
        ELSE LET i == CHOOSE j \in at : \A k \in at : j <= k
             IN  SubSeq(all, i + 1, Len(all)) \o SubSeq(all, 1, i)

Assignable(ip) == ip # Gateway /\ ip # subnet /\ ip # Broadcast

RECURSIVE FirstFree(_, _)
FirstFree(order, taken) ==
    IF order = <<>> THEN NoIP
    ELSE IF Assignable(Head(order)) /\ Head(order) \notin taken
         THEN Head(order)
         ELSE FirstFree(Tail(order), taken)

\* IPAllocator.Get(id, ifName, nil): the address reserved, or NoIP for
\* "no IP addresses available in range set"
Get(rs, h, taken) == FirstFree(GetOrder(rs, h), taken)

\* Store.Reserve: the IP file is created with the ID
Reserve(fs, ip, id) == [x \in DOMAIN fs \cup {ip} |-> IF x = ip THEN id ELSE fs[x]]

\* Store.Release(id, ifName): every IP file with the ID is removed
Release(fs, id) == [x \in {y \in DOMAIN fs : fs[y] # id} |-> fs[x]]

\* os.Remove(f)
RemoveFile(fs, f) == [x \in DOMAIN fs \ {f} |-> fs[x]]

\* disk.GetID(f)
GetID(fs, f) == IF f \in DOMAIN fs THEN fs[f] ELSE NoID

LockFree(n) == slock[n] = "free"

-----------------------------------------------------------------------------
(* host-etcd plugin: cmdAdd (formRangeSets, allocateIP) and cmdDel *)

AddIdle(n) == dpc[n] = "idle"

AddNone == [st |-> "none", ip |-> NoIP]
AddOk(ip) == [st |-> "ok", ip |-> ip]
AddErr == [st |-> "err", ip |-> NoIP]
\* ipConf of an allocateIP that has not returned yet
AddPending(ip) == [st |-> "pending", ip |-> ip]

\* the loop of formRangeSets over cacheRangeSet: for a cached range whose
\* start lies in a range of the configuration, that range is appended
RECURSIVE formRangeSets(_)
formRangeSets(caches) ==
    IF caches = <<>> THEN <<>>
    ELSE (IF Contains(OriginRange, Head(caches)[1]) THEN <<OriginRange>> ELSE <<>>)
         \o formRangeSets(Tail(caches))

\* cmdAdd up to the end of the loop of formRangeSets: with no range from the
\* cache, ApplyNewIPRange is called
cmdAdd(n, c) ==
    /\ AddIdle(n)
    /\ HostIdle(n)
    /\ cstate[c] = "new"
    /\ cstate' = [cstate EXCEPT ![c] = "alive"]
    /\ dCid' = [dCid EXCEPT ![n] = c]
    /\ dRet' = [dRet EXCEPT ![n] = AddNone]
    /\ LET rs == formRangeSets(cache[n])
       IN  IF Len(rs) = 0
           THEN /\ HostEnter(n)
                /\ dpc' = [dpc EXCEPT ![n] = "form"]
                /\ dAcq' = [dAcq EXCEPT ![n] = 1]
                /\ UNCHANGED dRss
           ELSE /\ dRss' = [dRss EXCEPT ![n] = rs]
                /\ dpc' = [dpc EXCEPT ![n] = "get"]
                /\ dAcq' = [dAcq EXCEPT ![n] = 0]
                /\ UNCHANGED <<hpc, hTry, hRet, hCalls>>
    /\ UNCHANGED <<hkv, rev, hSnap, hBlk, hPutRev, hHeld>>
    /\ UNCHANGED <<cache, files, hint, slock, dHeld>>
    /\ UNCHANGED addRest

\* formRangeSets after ApplyNewIPRange: the block is the range set, and the
\* cache file is rewritten with it
formRangeSetsLeased(n) ==
    /\ dpc[n] = "form"
    /\ HostIdle(n)
    /\ IF hRet[n].st = "ok"
       THEN /\ dRss' = [dRss EXCEPT ![n] = <<<<hRet[n].b, hRet[n].e>>>>]
            /\ cache' = [cache EXCEPT ![n] = <<<<hRet[n].b, hRet[n].e>>>>]
            /\ dpc' = [dpc EXCEPT ![n] = "get"]
            /\ UNCHANGED dRet
       ELSE /\ dpc' = [dpc EXCEPT ![n] = "idle"]
            /\ dRet' = [dRet EXCEPT ![n] = AddErr]
            /\ UNCHANGED <<dRss, cache>>
    /\ UNCHANGED <<files, hint, slock, cstate, dCid, dAcq, dHeld>>
    /\ UNCHANGED <<hvars, addRest>>

\* allocateIP, alloc.Get on the range set: an address is reserved, or with
\* none available ApplyNewIPRange is called; or Get fails with another error
\* (the store), which the loop passes over: ipConf is appended as it is
allocateIP(n) ==
    /\ dpc[n] = "get"
    /\ LockFree(n)
    /\ \/ LET ip == Get(dRss[n], hint[n], DOMAIN files[n])
          IN  IF ip # NoIP
              THEN /\ files' = [files EXCEPT ![n] = Reserve(@, ip, dCid[n])]
                   /\ hint' = [hint EXCEPT ![n] = ip]
                   /\ dHeld' = [dHeld EXCEPT ![n] = Reserve(@, ip, dCid[n])]
                   /\ dRet' = [dRet EXCEPT ![n] = AddOk(ip)]
                   /\ dpc' = [dpc EXCEPT ![n] = "idle"]
                   /\ UNCHANGED <<dAcq, hpc, hTry, hRet, hCalls>>
              ELSE /\ HostEnter(n)
                   /\ dpc' = [dpc EXCEPT ![n] = "extend"]
                   /\ dAcq' = [dAcq EXCEPT ![n] = @ + 1]
                   /\ UNCHANGED <<files, hint, dHeld, dRet>>
       \/ /\ dRet' = [dRet EXCEPT ![n] = AddOk(NoIP)]
          /\ dpc' = [dpc EXCEPT ![n] = "idle"]
          /\ UNCHANGED <<files, hint, dHeld, dAcq, hpc, hTry, hRet, hCalls>>
    /\ UNCHANGED <<hkv, rev, hSnap, hBlk, hPutRev, hHeld>>
    /\ UNCHANGED <<cache, slock, cstate, dCid, dRss>>
    /\ UNCHANGED addRest

\* allocateIP after ApplyNewIPRange: alloc.Get on the new block alone; on
\* success the block joins the range set; when ApplyNewIPRange or this Get
\* failed (no address free in the block, or an error of the store) allocateIP
\* returns "failed to allocate for range"
allocateIPLeased(n) ==
    /\ dpc[n] = "extend"
    /\ HostIdle(n)
    /\ LockFree(n)
    /\ LET r == <<hRet[n].b, hRet[n].e>>
           ip == IF hRet[n].st = "ok"
                 THEN Get(<<r>>, hint[n], DOMAIN files[n]) ELSE NoIP
       IN  \/ /\ ip # NoIP
              /\ files' = [files EXCEPT ![n] = Reserve(@, ip, dCid[n])]
              /\ hint' = [hint EXCEPT ![n] = ip]
              /\ dHeld' = [dHeld EXCEPT ![n] = Reserve(@, ip, dCid[n])]
              /\ dRet' = [dRet EXCEPT ![n] = AddPending(ip)]
              /\ dRss' = [dRss EXCEPT ![n] = Append(@, r)]
              /\ dpc' = [dpc EXCEPT ![n] = "flash"]
           \/ /\ dRet' = [dRet EXCEPT ![n] = AddErr]
              /\ dpc' = [dpc EXCEPT ![n] = "idle"]
              /\ UNCHANGED <<files, hint, dHeld, dRss>>
    /\ UNCHANGED <<cache, slock, cstate, dCid, dAcq>>
    /\ UNCHANGED <<hvars, addRest>>

\* the end of allocateIP with reflashCache set: store.FlashRangeSetToCache
\* rewrites the cache file with the range set, and the addresses are returned
allocateIPFlash(n) ==
    /\ dpc[n] = "flash"
    /\ cache' = [cache EXCEPT ![n] = dRss[n]]
    /\ dRet' = [dRet EXCEPT ![n] = AddOk(@.ip)]
    /\ dpc' = [dpc EXCEPT ![n] = "idle"]
    /\ UNCHANGED <<files, hint, slock, cstate, dCid, dRss, dAcq, dHeld>>
    /\ UNCHANGED <<hvars, addRest>>

\* cmdDel: ipAllocator.Release(args.ContainerID, args.IfName)
cmdDel(n, c) ==
    /\ (AddIdle(n) \/ dCid[n] # c)
    /\ LockFree(n)
    /\ \E ip \in DOMAIN files[n] : files[n][ip] = c
    /\ files' = [files EXCEPT ![n] = Release(@, c)]
    /\ dHeld' = [dHeld EXCEPT ![n] = Release(@, c)]
    /\ UNCHANGED <<cache, hint, slock, cstate, dpc, dCid, dRss, dRet, dAcq>>
    /\ UNCHANGED <<hvars, addRest>>

StoreInit ==
    /\ slock = [n \in Node |-> "free"]
    /\ dpc = [n \in Node |-> "idle"]
    /\ dCid = [n \in Node |-> NoID]
    /\ dRss = [n \in Node |-> <<>>]
    /\ dRet = [n \in Node |-> AddNone]
    /\ dAcq = [n \in Node |-> 0]
    /\ mTry = [n \in Node |-> 0]
    /\ mHist = [n \in Node |-> <<>>]

\* a store with no file, no hint and no cache, and no container yet
StoreEmpty ==
    /\ files = [n \in Node |-> << >>]
    /\ hint = [n \in Node |-> NoIP]
    /\ dHeld = [n \in Node |-> << >>]
    /\ cstate = [c \in ContainerID |-> "new"]

-----------------------------------------------------------------------------
(* dockercli: IPAMCheckLocalIPs *)

\* runs of IPAMCheckLocalIPs one node makes in a run of the model
MaxSweeps == 1

SweepIdle(n) == spc[n] = "idle"

\* leases := disk.LoadAllLeases("", ""): file -> ID, as read now
IPAMCheckLocalIPs(n) ==
    /\ SweepIdle(n)
    /\ sRuns[n] < MaxSweeps
    /\ sRuns' = [sRuns EXCEPT ![n] = @ + 1]
    /\ sLeases' = [sLeases EXCEPT ![n] = files[n]]
    /\ spc' = [spc EXCEPT ![n] = "loop"]
    /\ UNCHANGED <<sCur, sLog>>
    /\ UNCHANGED <<dvars, sweepRest>>

\* cli.ContainerList with the filter id: the containers the runtime lists
ContainerList(id) == {c \in ContainerID : c = id /\ cstate[c] = "alive"}

\* if err != nil { continue }, without it: containers is empty on an error
SweepTakesEntryOnError(failed, listed) == failed \/ listed = 0

\* if err != nil { continue }; if len(containers) == 0 { ... }
SweepTakesEntry(failed, listed) == ~failed /\ listed = 0

\* one round of the loop up to s.Lock(): the next entry of the map, in any
\* order; ContainerList fails, or lists the container, or lists none (and
\* then disk.New fails or not)
SweepEntry(n) ==
    /\ spc[n] = "loop"
    /\ IF DOMAIN sLeases[n] = {}
       THEN /\ spc' = [spc EXCEPT ![n] = "idle"]
            /\ UNCHANGED <<sLeases, sCur, sLog>>
       ELSE \E f \in DOMAIN sLeases[n], failed \in BOOLEAN :
               LET id == sLeases[n][f]
                   listed == IF failed THEN 0 ELSE Cardinality(ContainerList(id))
               IN  /\ sLeases' = [sLeases EXCEPT ![n] = RemoveFile(@, f)]
                   /\ sLog' = IF failed
                               THEN sLog \cup
                                     {[node |-> n, f |-> f, id |-> id, curID |-> NoID,
                                       listed |-> FALSE, removed |-> FALSE,
                                       failed |-> TRUE, run |-> sRuns[n]]}
                               ELSE sLog
                   /\ IF SweepTakesEntry(failed, listed)
                      THEN \/ /\ sCur' = [sCur EXCEPT ![n] = <<f, id>>]
                              /\ spc' = [spc EXCEPT ![n] = "lock"]
                           \/ /\ spc' = [spc EXCEPT ![n] = "loop"]
                              /\ UNCHANGED sCur
                      ELSE /\ spc' = [spc EXCEPT ![n] = "loop"]
                           /\ UNCHANGED sCur
    /\ UNCHANGED sRuns
    /\ UNCHANGED <<dvars, sweepRest>>

\* s.Lock()
SweepLock(n) ==
    /\ spc[n] = "lock"
    /\ LockFree(n)
    /\ slock' = [slock EXCEPT ![n] = "sweep"]
    /\ spc' = [spc EXCEPT ![n] = "locked"]
    /\ UNCHANGED <<files, hint, cstate, dpc, dCid, dRss, dRet, dAcq, dHeld>>
    /\ UNCHANGED <<sLeases, sCur, sRuns, sLog>>
    /\ UNCHANGED sweepRest

\* if curID == id, without the comparison
SweepStaleAlways(curID, id) == TRUE

\* if curID == id
SweepStale(curID, id) == curID = id

\* curID := disk.GetID(f); if curID == id { os.Remove(f) }; s.Unlock()
SweepRemove(n) ==
    /\ spc[n] = "locked"
    /\ LET f == sCur[n][1]
           id == sCur[n][2]
           curID == GetID(files[n], f)
           remove == SweepStale(curID, id)
       IN  /\ files' = [files EXCEPT ![n] = IF remove THEN RemoveFile(@, f) ELSE @]
           /\ sLog' = sLog \cup
                 {[node |-> n, f |-> f, id |-> id, curID |-> curID,
                   listed |-> ContainerList(curID) # {}, removed |-> remove,
                   failed |-> FALSE, run |-> sRuns[n]]}
    /\ slock' = [slock EXCEPT ![n] = "free"]
    /\ spc' = [spc EXCEPT ![n] = "loop"]
    /\ UNCHANGED <<hint, cstate, dpc, dCid, dRss, dRet, dAcq, dHeld>>
    /\ UNCHANGED <<sLeases, sCur, sRuns>>
    /\ UNCHANGED sweepRest

\* the runtime: a container is gone
ContainerExit(c) ==
    /\ cstate[c] = "alive"
    /\ cstate' = [cstate EXCEPT ![c] = "gone"]
    /\ UNCHANGED <<files, hint, slock, dpc, dCid, dRss, dRet, dAcq, dHeld>>
    /\ UNCHANGED <<svars, sweepRest>>

SweepInit ==
    /\ spc = [n \in Node |-> "idle"]
    /\ sLeases = [n \in Node |-> << >>]
    /\ sCur = [n \in Node |-> <<NoIP, NoID>>]
    /\ sRuns = [n \in Node |-> 0]
    /\ sLog = {}

-----------------------------------------------------------------------------
(* multus-ipam: IPAMGetAllLease, IPAMCheck and ipamCheckNet *)

\* runs of IPAMCheck one node makes in a run of the model
MaxCheckRuns == 1

\* filepath.Base(filepath.Dir(k))
KeyNetwork(key) == key.dir[Len(key.dir)]

\* IPAMGetAllLease: the keys under keyDir whose value is id, as SimpleRanges
\* in the map leases, under the network of each key and in key order
RECURSIVE KeysToRanges(_)
KeysToRanges(keys) ==
    IF keys = <<>> THEN <<>>
    ELSE <<ipmaLeaseToUint32Range(Head(keys))>> \o KeysToRanges(Tail(keys))

IPAMGetAllLease(kv, keyDir, id) ==
    LET own == {k \in ListPrefix(kv, keyDir) : kv[k] = id}
    IN  [network \in {KeyNetwork(k) : k \in own} |->
            KeysToRanges(leaseSortedKeys({k \in own : KeyNetwork(k) = network}))]

CheckIdle(n) == kpc[n] = "idle"

\* keyDir := filepath.Join(em.RootKeyDir, leaseDir, network) of ipamCheckNet
checkKeyDir(n) == keyDirOf(n, kNet[n])

\* s.LoadCache() of the store disk.New(network, "") of node n
LoadCache(n, network) == IF network = NetworkName THEN cache[n] ELSE oCache[n]

\* the cache file of the store of the network is rewritten
WriteCache(n, network, lines) ==
    IF network = NetworkName
    THEN cache' = [cache EXCEPT ![n] = lines] /\ UNCHANGED oCache
    ELSE oCache' = [oCache EXCEPT ![n] = lines] /\ UNCHANGED cache

\* the return of IPAMCheck
CheckReturn(n, err) ==
    /\ kpc' = [kpc EXCEPT ![n] = "idle"]
    /\ kRuns' = [kRuns EXCEPT ![n] = @ + 1]
    /\ kRet' = [kRet EXCEPT ![n] = err]

\* ipamCheckNet returns at an error of the store
CheckNetGivesUp(n, network) ==
    /\ kpc' = [kpc EXCEPT ![n] = "nets"]
    /\ kSkipped' = [kSkipped EXCEPT ![n] = @ \cup {network}]

\* IPAMCheck up to the call of IPAMGetAllLease: leaseDir is overwritten; or
\* etcdv3.New fails and the fields of the nil etcdMultus are read
IPAMCheck(n) ==
    /\ CheckIdle(n)
    /\ ApplyIdle(n)
    /\ TransIdle(n)
    /\ kRuns[n] < MaxCheckRuns
    /\ kSkipped' = [kSkipped EXCEPT ![n] = {}]
    /\ \/ /\ leaseDir' = [leaseDir EXCEPT ![n] = Join(defaultEtcdRootDir, @)]
          /\ kpc' = [kpc EXCEPT ![n] = "list"]
          /\ kRet' = [kRet EXCEPT ![n] = "none"]
          /\ UNCHANGED kRuns
       \/ /\ CheckReturn(n, "panic")
          /\ UNCHANGED leaseDir
    /\ UNCHANGED <<cache, oCache, kMap, kNet, kLeases, kCaches, kIdx>>
    /\ UNCHANGED <<tvars, checkRest>>

\* the call of IPAMGetAllLease: the leases of this node are listed, and
\* with none IPAMCheck returns nil; or cli.Get fails and IPAMCheck returns
\* the error
CheckList(n) ==
    /\ kpc[n] = "list"
    /\ \/ LET leases == IPAMGetAllLease(ckv, leaseDir[n], n)
          IN  IF DOMAIN leases = {}
              THEN /\ CheckReturn(n, "nil")
                   /\ UNCHANGED kMap
              ELSE /\ kMap' = [kMap EXCEPT ![n] = leases]
                   /\ kpc' = [kpc EXCEPT ![n] = "nets"]
                   /\ UNCHANGED <<kRuns, kRet>>
       \/ /\ CheckReturn(n, "error")
          /\ UNCHANGED kMap
    /\ UNCHANGED <<cache, oCache, leaseDir, kNet, kLeases, kCaches, kIdx, kSkipped>>
    /\ UNCHANGED <<tvars, checkRest>>

\* for n, l := range leases: the next network of the map, in any order, and
\* disk.New of ipamCheckNet for it; after the last network IPAMCheck returns
CheckNet(n) ==
    /\ kpc[n] = "nets"
    /\ IF DOMAIN kMap[n] = {}
       THEN /\ CheckReturn(n, "nil")
            /\ UNCHANGED <<kMap, kNet, kLeases, kSkipped>>
       ELSE \E network \in DOMAIN kMap[n] :
                /\ kMap' = [kMap EXCEPT ![n] =
                      [m \in DOMAIN @ \ {network} |-> @[m]]]
                /\ kNet' = [kNet EXCEPT ![n] = network]
                /\ kLeases' = [kLeases EXCEPT ![n] = kMap[n][network]]
                /\ \/ /\ kpc' = [kpc EXCEPT ![n] = "load"]
                      /\ UNCHANGED kSkipped
                   \/ CheckNetGivesUp(n, network)
                /\ UNCHANGED <<kRuns, kRet>>
    /\ UNCHANGED <<cache, oCache, leaseDir, kCaches, kIdx>>
    /\ UNCHANGED <<tvars, checkRest>>

\* caches, err := s.LoadCache() before the first loop
CheckLoad(n) ==
    /\ kpc[n] = "load"
    /\ \/ /\ kCaches' = [kCaches EXCEPT ![n] = LoadCache(n, kNet[n])]
          /\ kpc' = [kpc EXCEPT ![n] = "leases"]
          /\ kIdx' = [kIdx EXCEPT ![n] = 1]
          /\ UNCHANGED kSkipped
       \/ /\ CheckNetGivesUp(n, kNet[n])
          /\ UNCHANGED <<kCaches, kIdx>>
    /\ UNCHANGED <<cache, oCache, leaseDir, kMap, kNet, kLeases, kRuns, kRet>>
    /\ UNCHANGED <<tvars, checkRest>>

\* the inner loop of the first pass over the slice caches, from entry i on:
\* entries that overlap lsr without matching it are deleted from the file,
\* and the loop breaks at the first entry matching lsr
RECURSIVE FirstPassScan(_, _, _, _)
FirstPassScan(caches, i, lsr, lines) ==
    IF i > Len(caches)
    THEN [matched |-> FALSE, lines |-> lines]
    ELSE IF Overlaps(caches[i], lsr)
         THEN IF Match(caches[i], lsr)
              THEN [matched |-> TRUE, lines |-> lines]
              ELSE FirstPassScan(caches, i + 1, lsr, DeleteCache(lines, caches[i]))
         ELSE FirstPassScan(caches, i + 1, lsr, lines)

\* the next lease of the first loop, or the end of the loop
CheckAdvanceLease(n) ==
    IF kIdx[n] < Len(kLeases[n])
    THEN /\ kIdx' = [kIdx EXCEPT ![n] = @ + 1]
         /\ kpc' = [kpc EXCEPT ![n] = "leases"]
    ELSE /\ kIdx' = [kIdx EXCEPT ![n] = 1]
         /\ kpc' = [kpc EXCEPT ![n] = "reload"]

\* first loop of ipamCheckNet, one lease lsr: AppendCache succeeds, or it
\* fails and TransDelKey is called for the lease
CheckLease(n) ==
    /\ kpc[n] = "leases"
    /\ LET lsr == kLeases[n][kIdx[n]]
           scan == FirstPassScan(kCaches[n], 1, lsr, LoadCache(n, kNet[n]))
       IN  IF scan.matched
           THEN /\ WriteCache(n, kNet[n], scan.lines)
                /\ CheckAdvanceLease(n)
                /\ UNCHANGED tvars
           ELSE \/ /\ WriteCache(n, kNet[n], AppendCache(scan.lines, lsr))
                   /\ CheckAdvanceLease(n)
                   /\ UNCHANGED tvars
                \/ /\ WriteCache(n, kNet[n], scan.lines)
                   /\ kpc' = [kpc EXCEPT ![n] = "leasedel"]
                   /\ TransDelEnter(n, ipamSimpleRangeToLease(checkKeyDir(n), lsr), "check")
                   /\ UNCHANGED <<kIdx, ckv, cmutex, tKeys, tLog>>
    /\ UNCHANGED <<leaseDir, kMap, kNet, kLeases, kCaches, kRuns, kRet, kSkipped>>
    /\ UNCHANGED checkRest

\* the return of TransDelKey; its error is dropped
CheckLeaseDeleted(n) ==
    /\ kpc[n] = "leasedel"
    /\ tpc[n] = "done"
    /\ tWho[n] = "check"
    /\ tpc' = [tpc EXCEPT ![n] = "idle"]
    /\ CheckAdvanceLease(n)
    /\ UNCHANGED <<ckv, cmutex, tOp, tKey, tVal, tNoExist, tErr, tWho, tKeys, tLog>>
    /\ UNCHANGED <<cache, oCache, leaseDir, kMap, kNet, kLeases, kCaches,
                   kRuns, kRet, kSkipped>>
    /\ UNCHANGED checkRest

\* caches, err = s.LoadCache() between the two loops
CheckReload(n) ==
    /\ kpc[n] = "reload"
    /\ \/ /\ kCaches' = [kCaches EXCEPT ![n] = LoadCache(n, kNet[n])]
          /\ kpc' = [kpc EXCEPT ![n] = "caches"]
          /\ UNCHANGED kSkipped
       \/ /\ CheckNetGivesUp(n, kNet[n])
          /\ UNCHANGED kCaches
    /\ UNCHANGED <<cache, oCache, leaseDir, kMap, kNet, kLeases, kIdx, kRuns, kRet>>
    /\ UNCHANGED <<tvars, checkRest>>

\* a lease of the slice leases matches csr
LeaseMatches(leases, csr) == \E i \in 1 .. Len(leases) : Match(csr, leases[i])

\* the next entry of the second loop; at its end ipamCheckNet returns to the
\* loop of IPAMCheck over the networks
CheckAdvanceCache(n) ==
    IF kIdx[n] < Len(kCaches[n])
    THEN /\ kIdx' = [kIdx EXCEPT ![n] = @ + 1]
         /\ kpc' = [kpc EXCEPT ![n] = "caches"]
    ELSE /\ kIdx' = [kIdx EXCEPT ![n] = 1]
         /\ kpc' = [kpc EXCEPT ![n] = "nets"]

\* second loop of ipamCheckNet, one cache entry csr: with no matching
\* lease TransPutKey(cli, key, id, true) is called
CheckCache(n) ==
    /\ kpc[n] = "caches"
    /\ IF Len(kCaches[n]) = 0
       THEN /\ kpc' = [kpc EXCEPT ![n] = "nets"]
            /\ UNCHANGED <<kIdx, tvars>>
       ELSE IF LeaseMatches(kLeases[n], kCaches[n][kIdx[n]])
            THEN /\ CheckAdvanceCache(n)
                 /\ UNCHANGED tvars
            ELSE /\ kpc' = [kpc EXCEPT ![n] = "cacheput"]
                 /\ TransPutEnter(n, ipamSimpleRangeToLease(
                        checkKeyDir(n), kCaches[n][kIdx[n]]), n, TRUE, "check")
                 /\ UNCHANGED <<kIdx, ckv, cmutex, tKeys, tLog>>
    /\ UNCHANGED <<cache, oCache, leaseDir, kMap, kNet, kLeases, kCaches,
                   kRuns, kRet, kSkipped>>
    /\ UNCHANGED checkRest

\* the return of TransPutKey: on an error s.DeleteCache(&csr)
CheckCacheWritten(n) ==
    /\ kpc[n] = "cacheput"
    /\ tpc[n] = "done"
    /\ tWho[n] = "check"
    /\ tpc' = [tpc EXCEPT ![n] = "idle"]
    /\ WriteCache(n, kNet[n],
          IF tErr[n] = "nil" THEN LoadCache(n, kNet[n])
          ELSE DeleteCache(LoadCache(n, kNet[n]), kCaches[n][kIdx[n]]))
    /\ CheckAdvanceCache(n)
    /\ UNCHANGED <<ckv, cmutex, tOp, tKey, tVal, tNoExist, tErr, tWho, tKeys, tLog>>
    /\ UNCHANGED <<leaseDir, kMap, kNet, kLeases, kCaches, kRuns, kRet, kSkipped>>
    /\ UNCHANGED checkRest

\* no IPAMCheck has been called
CheckInit ==
    /\ kpc = [n \in Node |-> "idle"]
    /\ kMap = [n \in Node |-> << >>]
    /\ kNet = [n \in Node |-> NetworkName]
    /\ kLeases = [n \in Node |-> <<>>]
    /\ kCaches = [n \in Node |-> <<>>]
    /\ kIdx = [n \in Node |-> 1]
    /\ kRuns = [n \in Node |-> 0]
    /\ kRet = [n \in Node |-> "none"]
    /\ kSkipped = [n \in Node |-> {}]

\* the stores of the other network hold no cache
OtherStoresEmpty == oCache = [n \in Node |-> <<>>]

\* ranges a cache file may hold when the model starts
BlockAt(b) == <<b, b + 2^ApplyUnitExp - 1>>

InitialCacheRanges ==
    { BlockAt(SubnetIP + 2), BlockAt(SubnetIP + 2 + 2^ApplyUnitExp),
      BlockAt(SubnetIP + 4) }

\* cache files of at most two lines, no line twice
InitialCaches ==
    {<<>>} \cup {<<r>> : r \in InitialCacheRanges}
           \cup {q \in InitialCacheRanges \X InitialCacheRanges : q[1] # q[2]}

\* lease blocks of the network held by the nodes when the model starts
InitialOwnedLeases ==
    UNION { [{LeaseKey(ApplyKeyDir, b, ApplyUnitExp) : b \in S} -> Node] :
                S \in SUBSET {SubnetIP + 2, SubnetIP + 2 + 2^ApplyUnitExp} }

\* the node that also serves the other network when the model starts
TwoNetworkNode == CHOOSE n \in Node : TRUE

\* a lease block of the other network, of that node or of none
InitialOtherLeases ==
    {<< >>, LeaseKey(OtherKeyDir, SubnetIP + 2, ApplyUnitExp) :> TwoNetworkNode}

\* cache files of the stores of the other network: no line, or one line on
\* the node that serves it
InitialOtherCaches ==
    {[n \in Node |-> IF n = TwoNetworkNode THEN lines ELSE <<>>] :
        lines \in {<<>>, <<BlockAt(SubnetIP + 2)>>}}

\* cache files of the network on the nodes: any of them on the node that
\* serves two networks, of at most one line on the others
InitialNodeCaches ==
    {c \in [Node -> InitialCaches] :
        \A n \in Node \ {TwoNetworkNode} : Len(c[n]) <= 1}

InitCheck ==
    /\ HostInit
    /\ TransInit
    /\ ApplyInit
    /\ CheckInit
    /\ StoreInit
    /\ StoreEmpty
    /\ SweepInit
    /\ PureInit
    /\ \E own \in InitialOwnedLeases, other \in InitialOtherLeases :
          ckv = own @@ other
    /\ cache \in InitialNodeCaches
    /\ oCache \in InitialOtherCaches

NextCheck ==
    \E n \in Node :
        \/ IPAMCheck(n)
        \/ CheckList(n)
        \/ CheckNet(n)
        \/ CheckLoad(n)
        \/ CheckLease(n)
        \/ CheckLeaseDeleted(n)
        \/ CheckReload(n)
        \/ CheckCache(n)
        \/ CheckCacheWritten(n)
        \/ TransSession(n)
        \/ TransLock(n)
        \/ TransGet(n)
        \/ TransWrite(n)
        \/ TransDelete(n)
        \/ TransUnlock(n)

SpecCheck == InitCheck /\ [][NextCheck]_vars

-----------------------------------------------------------------------------
(* Specification of the host-etcd plugin: ADD and DEL on the nodes *)

\* the block ApplyNewIPRange returns on a network without a lease
FirstBlock == LET r == GetFreeIPRange(PluginNetwork, << >>, ApplyUnit) IN <<r.b, r.e>>

\* a store in which every address of the configured range is assigned
FullStore == [ip \in (OriginRange[1] + 1) .. OriginRange[2] |-> OldContainer]

\* every store is empty, or the store of one node holds the first block and
\* has run full with containers older than the run of the model
InitAdd ==
    /\ HostCallsInit
    /\ TransInit
    /\ ApplyInit
    /\ CheckInit
    /\ OtherStoresEmpty
    /\ StoreInit
    /\ SweepInit
    /\ PureInit
    /\ ckv = << >>
    /\ hNetwork = PluginNetwork
    /\ subnet = SubnetIP
    /\ cstate = [c \in ContainerID |-> "new"]
    /\ dHeld = [n \in Node |-> << >>]
    /\ \E S \in {{}, {"n1"}} :
          /\ files = [n \in Node |-> IF n \in S THEN FullStore ELSE << >>]
          /\ hint = [n \in Node |-> IF n \in S THEN OriginRange[2] ELSE NoIP]
          /\ cache = [n \in Node |-> IF n \in S THEN <<FirstBlock>> ELSE <<>>]
          /\ hkv = [k \in {FirstBlock : n \in S} |-> "n1"]
          /\ rev = 1 + Cardinality(S)

NextAdd ==
    \E n \in Node :
        \/ \E c \in ContainerID : cmdAdd(n, c)
        \/ formRangeSetsLeased(n)
        \/ allocateIP(n)
        \/ allocateIPLeased(n)
        \/ allocateIPFlash(n)
        \/ \E c \in ContainerID \cup {OldContainer} : cmdDel(n, c)
        \/ HostGetFree(n)
        \/ HostPut(n)
        \/ HostVerify(n)

SpecAdd == InitAdd /\ [][NextAdd]_vars

-----------------------------------------------------------------------------
(* Specification of the sweep on one node, next to ADD and DEL *)

\* the node whose store is swept
SweepNode == {"n1"}

\* the IP files of the node when the model starts, written by ADD before
InitialFiles ==
    { << >>,
      [ip \in {FirstBlock[1]} |-> "c1"],
      [ip \in {FirstBlock[1], FirstBlock[1] + 1} |->
          IF ip = FirstBlock[1] THEN "c1" ELSE "c2"] }

FileIDs(fs) == {fs[x] : x \in DOMAIN fs}

\* the node holds the first block; its store has the files of containers
\* that are alive or gone; the hint is at the last address assigned
InitSweep ==
    /\ subnet = SubnetIP
    /\ HostCallsInit
    /\ TransInit
    /\ ApplyInit
    /\ CheckInit
    /\ OtherStoresEmpty
    /\ StoreInit
    /\ SweepInit
    /\ PureInit
    /\ ckv = << >>
    /\ hkv = [k \in {FirstBlock} |-> "n1"]
    /\ rev = 2
    /\ hNetwork = PluginNetwork
    /\ cache = [n \in Node |-> IF n \in SweepNode THEN <<FirstBlock>> ELSE <<>>]
    /\ \E fs \in InitialFiles :
          /\ files = [n \in Node |-> IF n \in SweepNode THEN fs ELSE << >>]
          /\ dHeld = files
          /\ cstate \in [ContainerID -> {"new", "alive", "gone"}]
          /\ \A c \in ContainerID : cstate[c] = "new" <=> c \notin FileIDs(fs)
    /\ \E h \in {FirstBlock[1] + 1, OriginRange[2]} :
          hint = [n \in Node |-> IF n \in SweepNode THEN h ELSE NoIP]

NextSweep ==
    \/ \E n \in SweepNode :
          \/ IPAMCheckLocalIPs(n)
          \/ SweepEntry(n)
          \/ SweepLock(n)
          \/ SweepRemove(n)
          \/ \E c \in ContainerID : cmdAdd(n, c)
          \/ allocateIP(n)
          \/ \E c \in ContainerID : cmdDel(n, c)
    \/ \E c \in ContainerID : ContainerExit(c)

SpecSweep == InitSweep /\ [][NextSweep]_vars

-----------------------------------------------------------------------------
(* Specification of IPAMApplyIPRange alone *)

\* the lease blocks other nodes may hold when the model starts: blocks of
\* 2^ApplyUnitExp addresses inside the usable range, none overlapping another
InitialBlockStarts ==
    {SubnetIP + 2, SubnetIP + 2 + 2^ApplyUnitExp, SubnetIP + 3 + 2 * 2^ApplyUnitExp}

InitialLeases ==
    { [k \in {LeaseKey(ApplyKeyDir, b, ApplyUnitExp) : b \in S} |-> OtherNode] :
          S \in SUBSET InitialBlockStarts }

InitCli ==
    /\ HostInit
    /\ TransInit
    /\ ApplyInit
    /\ CheckInit
    /\ OtherStoresEmpty
    /\ StoreInit
    /\ StoreEmpty
    /\ SweepInit
    /\ PureInit
    /\ cache = [n \in Node |-> <<>>]
    /\ ckv \in InitialLeases

NextCli ==
    \E n \in Node :
        \/ IPAMApplyIPRange(n)
        \/ ApplyGetFree(n)
        \/ TransSession(n)
        \/ TransLock(n)
        \/ TransGet(n)
        \/ TransWrite(n)
        \/ TransUnlock(n)
        \/ ApplyReturn(n)

SpecCli == InitCli /\ [][NextCli]_vars

-----------------------------------------------------------------------------
(* Specification of IPAMApplyIPRange for one network, the coordinator holding
   the leases of two networks *)

\* the lease blocks other nodes may hold in the two networks
InitialNetLeases ==
    { [k \in {LeaseKey(p[1], p[2], ApplyUnitExp) : p \in S} |-> OtherNode] :
          S \in SUBSET ({ApplyKeyDir, OtherKeyDir} \X InitialBlockStarts) }

InitNets ==
    /\ HostInit
    /\ TransInit
    /\ ApplyInit
    /\ CheckInit
    /\ OtherStoresEmpty
    /\ StoreInit
    /\ StoreEmpty
    /\ SweepInit
    /\ PureInit
    /\ cache = [n \in Node |-> <<>>]
    /\ ckv \in InitialNetLeases

SpecNets == InitNets /\ [][NextCli]_vars

-----------------------------------------------------------------------------
(* Clients calling TransPutKey(cli, key, id, true) directly *)

\* calls one client makes in a run of the model
MaxPutCalls == 2

\* the lease keys the clients compete for
PutKeys ==
    { LeaseKey(ApplyKeyDir, SubnetIP + 2, 2),
      LeaseKey(ApplyKeyDir, SubnetIP + 6, 2) }

LogOf(c) == {e \in tLog : e.client = c}

PutIfAbsentCall(c, k) ==
    /\ TransIdle(c)
    /\ Cardinality(LogOf(c)) < MaxPutCalls
    /\ TransPutEnter(c, k, c, TRUE, "direct")
    /\ UNCHANGED <<ckv, cmutex, tKeys, tLog>>
    /\ UNCHANGED transRest

DirectReturn(c) ==
    /\ tpc[c] = "done"
    /\ tWho[c] = "direct"
    /\ tLog' = tLog \cup {[client |-> c, key |-> tKey[c], err |-> ErrorKind(tErr[c])]}
    /\ tpc' = [tpc EXCEPT ![c] = "idle"]
    /\ UNCHANGED <<ckv, cmutex, tOp, tKey, tVal, tNoExist, tErr, tWho, tKeys>>
    /\ UNCHANGED transRest

InitPut ==
    /\ HostInit
    /\ TransInit
    /\ ApplyInit
    /\ CheckInit
    /\ OtherStoresEmpty
    /\ StoreInit
    /\ StoreEmpty
    /\ SweepInit
    /\ PureInit
    /\ cache = [n \in Node |-> <<>>]
    /\ \E present \in SUBSET PutKeys : ckv = [k \in present |-> OtherNode]

NextPut ==
    \E c \in Client :
        \/ \E k \in PutKeys : PutIfAbsentCall(c, k)
        \/ TransSession(c)
        \/ TransLock(c)
        \/ TransGet(c)
        \/ TransWrite(c)
        \/ TransUnlock(c)
        \/ DirectReturn(c)

SpecPut == InitPut /\ [][NextPut]_vars

-----------------------------------------------------------------------------
(* Lease keys written and read back: both key formats on their own *)


\* the SimpleRanges inside a subnet of HostBits host bits at base
RangesIn(base) ==
    {<<s, e>> : s \in base .. (base + HostMask), e \in base .. (base + HostMask)}
        \cap {r \in Int \X Int : r[1] <= r[2]}

\* claimKey := fmt.Sprintf(keyTemplate, IPBegin, IPEnd) of host-etcd
hostClaimKey(rs) == <<rs[1], rs[2]>>

\* what GetFreeIPRange reads back from a key of host-etcd
hostKeyToRange(network, k) == <<hostKeyBegin(network, k), hostKeyEnd(network, k)>>

\* ipmaLeaseToUint32Range(ipamSimpleRangeToLease(keyDir, rs)), and the same
\* for the key of host-etcd
KeyRoundTrip ==
    /\ ppc = "range"
    /\ ppc' = "key"
    /\ pOut' = [cli |-> ipmaLeaseToUint32Range(ipamSimpleRangeToLease(ApplyKeyDir, pIn)),
                host |-> hostKeyToRange(PluginNetwork, hostClaimKey(pIn))]
    /\ UNCHANGED <<pIn, pureRest>>

InitKey ==
    /\ HostInit
    /\ TransInit
    /\ ApplyInit
    /\ CheckInit
    /\ OtherStoresEmpty
    /\ StoreInit
    /\ StoreEmpty
    /\ SweepInit
    /\ ckv = << >>
    /\ cache = [n \in Node |-> <<>>]
    /\ ppc = "range"
    /\ pIn \in RangesIn(SubnetIP) \cup RangesIn(ExampleSubnetIP)
    /\ pOut = <<>>

NextKey == KeyRoundTrip

SpecKey == InitKey /\ [][NextKey]_vars

-----------------------------------------------------------------------------
(* Specification of the host-etcd lease manager alone *)

InitHost ==
    /\ HostInit
    /\ TransInit
    /\ ApplyInit
    /\ CheckInit
    /\ OtherStoresEmpty
    /\ StoreInit
    /\ StoreEmpty
    /\ SweepInit
    /\ PureInit
    /\ ckv = << >>
    /\ cache = [n \in Node |-> <<>>]

NextHost ==
    \E n \in Node :
        \/ HostMain(n)
        \/ HostGetFree(n)
        \/ HostPut(n)
        \/ HostVerify(n)

SpecHost == InitHost /\ [][NextHost]_vars

-----------------------------------------------------------------------------
(* Specification of ApplyNewIPRange of host-etcd with a coordinator whose
   listing can fail, for the network of a plugin configuration or the one
   of main() *)

\* GetFreeIPRange when cli.Get fails: return 0, 0, nil
ListFailedRange == <<0, 0>>

\* GetFreeIPRange inside the loop, cli.Get failing: no error reaches
\* ApplyNewIPRange, which goes on to claim the range it was given
HostGetFreeFails(n) ==
    /\ hpc[n] = "free"
    /\ hpc' = [hpc EXCEPT ![n] = "put"]
    /\ hBlk' = [hBlk EXCEPT ![n] = ListFailedRange]
    /\ UNCHANGED <<hkv, rev, hTry, hSnap, hPutRev, hRet, hCalls, hHeld>>
    /\ UNCHANGED hostRest

NextHostErr ==
    \E n \in Node :
        \/ HostMain(n)
        \/ HostGetFree(n)
        \/ HostGetFreeFails(n)
        \/ HostPut(n)
        \/ HostVerify(n)

InitHostErr ==
    /\ hkv = << >>
    /\ rev = 1
    /\ hNetwork \in HostNetworks
    /\ subnet = SubnetIP
    /\ HostCallsInit
    /\ TransInit
    /\ ApplyInit
    /\ CheckInit
    /\ OtherStoresEmpty
    /\ StoreInit
    /\ StoreEmpty
    /\ SweepInit
    /\ PureInit
    /\ ckv = << >>
    /\ cache = [n \in Node |-> <<>>]

SpecHostErr == InitHostErr /\ [][NextHostErr]_vars

-----------------------------------------------------------------------------
(* What the lease manager is specified to do, for comparison with the code *)

\* the range <<b, e>> of a recorded host-etcd key
hostKeyRange(k) == <<k[1], k[2]>>

RangesOverlap(r, q) == U32Le(r[1], q[2]) /\ U32Le(q[1], r[2])

\* the subnet's usable range is [network + 1, broadcast - 1]; with the
\* gateway on network + 1 the first assignable address is network + 2
UsableLast == subnet + HostMask - 1
FirstAssignable == subnet + 2

\* unit free addresses start at s
FreeRun(leases, s, unit) ==
    /\ FirstAssignable <= s
    /\ s + unit - 1 <= UsableLast
    /\ \A r \in leases : ~RangesOverlap(r, <<s, s + unit - 1>>)

HasGap(leases, unit) ==
    \E s \in FirstAssignable .. UsableLast : FreeRun(leases, s, unit)

\* start of the first gap of at least unit free addresses
FirstGapStart(leases, unit) ==
    CHOOSE s \in FirstAssignable .. UsableLast :
        /\ FreeRun(leases, s, unit)
        /\ \A t \in FirstAssignable .. (s - 1) : ~FreeRun(leases, t, unit)

HostSnapLeases(n) == {hostKeyRange(k) : k \in hSnap[n]}

\* ApplyNewIPRange has chosen a block and is claiming it
HostChosen(n) == hpc[n] \in {"put", "verify"}

-----------------------------------------------------------------------------
(* multus-ipam plugin: cmdAdd (formRangeSets, allocateIP) and cmdDel *)

\* cmdAdd calls in a run of the model, each for a new container
MaxAdds == 5

\* the containers of the calls: the k-th call is for container k
MultusContainer == 1 .. MaxAdds

\* the retry loop of allocateIP: for i := 0; i < 3; i++
maxLeaseTry == 3

\* the range r of formRangeSets for a configured range ro and a cached
\* range cr: ro with the later start and the earlier end of the two
ClipRange(ro, cr) ==
    <<IF U32Less(ro[1], cr[1]) THEN cr[1] ELSE ro[1],
      IF U32Less(cr[2], ro[2]) THEN cr[2] ELSE ro[2]>>

\* the condition under which formRangeSets takes a cached range
CacheRangeTaken(ro, cr) == Contains(ro, cr[1]) \/ Contains(ro, cr[2])

\* the loop over cacheRangeSet for one configured range ro
RECURSIVE multusRangeClips(_, _)
multusRangeClips(ro, caches) ==
    IF caches = <<>> THEN <<>>
    ELSE (IF CacheRangeTaken(ro, Head(caches))
          THEN <<ClipRange(ro, Head(caches))>> ELSE <<>>)
         \o multusRangeClips(ro, Tail(caches))

\* the loop over the ranges of one configured range set rso
RECURSIVE multusRangeSetClips(_, _)
multusRangeSetClips(rso, caches) ==
    IF rso = <<>> THEN <<>>
    ELSE multusRangeClips(Head(rso), caches)
         \o multusRangeSetClips(Tail(rso), caches)

\* formRangeSets(origin, network, unit, store) of the multus-ipam plugin
multusFormRangeSets(origin, caches) ==
    [i \in 1 .. Len(origin) |-> multusRangeSetClips(origin[i], caches)]

\* ipamConf.Ranges: one range set of one range
ConfRanges == <<<<OriginRange>>>>

AddRecord(st, ip, acq, lines) == [st |-> st, ip |-> ip, acq |-> acq, cache |-> lines]

\* what cmdAdd and cmdDel leave alone of a call of ApplyNewIPRange
multusHostKept == <<hkv, rev, hpc, hTry, hSnap, hBlk, hPutRev, hRet, hCalls, hHeld>>

\* cmdAdd up to the loop of allocateIP: formRangeSets
multusCmdAdd(n, c) ==
    /\ AddIdle(n)
    /\ HostIdle(n)
    /\ cstate[c] = "new"
    /\ \A k \in MultusContainer : k < c => cstate[k] # "new"
    /\ cstate' = [cstate EXCEPT ![c] = "alive"]
    /\ dCid' = [dCid EXCEPT ![n] = c]
    /\ dRet' = [dRet EXCEPT ![n] = AddNone]
    /\ dRss' = [dRss EXCEPT ![n] = multusFormRangeSets(ConfRanges, cache[n])[1]]
    /\ dAcq' = [dAcq EXCEPT ![n] = 0]
    /\ mTry' = [mTry EXCEPT ![n] = 0]
    /\ dpc' = [dpc EXCEPT ![n] = "mget"]
    /\ UNCHANGED <<cache, files, hint, slock, dHeld, mHist, multusHostKept>>

\* the return of cmdAdd with an address
multusAddOk(n, ip, lines) ==
    /\ files' = [files EXCEPT ![n] = Reserve(@, ip, dCid[n])]
    /\ hint' = [hint EXCEPT ![n] = ip]
    /\ dHeld' = [dHeld EXCEPT ![n] = Reserve(@, ip, dCid[n])]
    /\ dRet' = [dRet EXCEPT ![n] = AddOk(ip)]
    /\ dpc' = [dpc EXCEPT ![n] = "idle"]
    /\ mHist' = [mHist EXCEPT ![n] = Append(@, AddRecord("ok", ip, dAcq[n], lines))]

\* the return of cmdAdd with "failed to allocate for range"
multusAddErr(n, lines) ==
    /\ dRet' = [dRet EXCEPT ![n] = AddErr]
    /\ dpc' = [dpc EXCEPT ![n] = "idle"]
    /\ mHist' = [mHist EXCEPT ![n] = Append(@, AddRecord("err", NoIP, dAcq[n], lines))]
    /\ UNCHANGED <<files, hint, dHeld>>

\* allocateIP before the retry loop: alloc.Get on the range set, or with an
\* empty range set "no IP addresses available in range set" at once; Get
\* may fail with another error
multusAllocateIP(n) ==
    /\ dpc[n] = "mget"
    /\ LockFree(n)
    /\ LET ip == IF Len(dRss[n]) > 0
                 THEN Get(dRss[n], hint[n], DOMAIN files[n]) ELSE NoIP
       IN  \/ IF ip # NoIP
              THEN multusAddOk(n, ip, cache[n])
              ELSE /\ dpc' = [dpc EXCEPT ![n] = "mloop"]
                   /\ UNCHANGED <<files, hint, dHeld, dRet, mHist>>
           \/ /\ Len(dRss[n]) > 0
              /\ multusAddErr(n, cache[n])
    /\ UNCHANGED <<cache, slock, cstate, dCid, dRss, dAcq, mTry, multusHostKept>>

\* the retry loop with "no IP addresses available in range set": the call
\* etcdv3.ApplyNewIPRange(ipamConf.Name, &subnet, ipamConf.ApplyUnit), whose
\* requests are the steps HostGetFree, HostPut and HostVerify of the node
multusApplyNewIPRange(n) ==
    /\ dpc[n] = "mloop"
    /\ HostIdle(n)
    /\ hCalls[n] < MaxCalls
    /\ HostEnter(n)
    /\ dAcq' = [dAcq EXCEPT ![n] = @ + 1]
    /\ dpc' = [dpc EXCEPT ![n] = "mapply"]
    /\ UNCHANGED <<hkv, rev, hSnap, hBlk, hPutRev, hHeld>>
    /\ UNCHANGED <<cache, files, hint, slock, cstate, dCid, dRss, dRet, dHeld>>
    /\ UNCHANGED mvars

\* the retry loop after ApplyNewIPRange has returned: with an error the loop
\* is left and cmdAdd fails; with a block store.AppendRangeToCache is called
\* for its line, the line is written or the call fails and its result is
\* dropped, and the allocator is made for the block alone
multusAppendRangeToCache(n) ==
    /\ dpc[n] = "mapply"
    /\ HostIdle(n)
    /\ IF hRet[n].st = "ok"
       THEN LET r == <<hRet[n].b, hRet[n].e>>
            IN  /\ \/ cache' = [cache EXCEPT ![n] = Append(@, r)]
                   \/ UNCHANGED cache
                /\ dRss' = [dRss EXCEPT ![n] = <<r>>]
                /\ dpc' = [dpc EXCEPT ![n] = "mleased"]
                /\ UNCHANGED <<files, hint, dHeld, dRet, mHist>>
       ELSE /\ multusAddErr(n, cache[n])
            /\ UNCHANGED <<cache, dRss>>
    /\ UNCHANGED <<slock, cstate, dCid, dAcq, mTry, multusHostKept>>

\* the retry loop after AppendRangeToCache: alloc.Get on the new block; on
\* an error the loop goes on, for "no IP addresses available" with another
\* ApplyNewIPRange while i < 3
multusRetryGet(n) ==
    /\ dpc[n] = "mleased"
    /\ LockFree(n)
    /\ LET ip == Get(dRss[n], hint[n], DOMAIN files[n])
       IN  \/ IF ip # NoIP
              THEN /\ multusAddOk(n, ip, cache[n])
                   /\ UNCHANGED mTry
              ELSE /\ mTry' = [mTry EXCEPT ![n] = @ + 1]
                   /\ IF mTry[n] + 1 < maxLeaseTry
                      THEN /\ dpc' = [dpc EXCEPT ![n] = "mloop"]
                           /\ UNCHANGED <<files, hint, dHeld, dRet, mHist>>
                      ELSE multusAddErr(n, cache[n])
           \/ /\ mTry' = [mTry EXCEPT ![n] = @ + 1]
              /\ multusAddErr(n, cache[n])
    /\ UNCHANGED <<cache, slock, cstate, dCid, dRss, dAcq, multusHostKept>>

\* cmdDel: ipAllocator.Release(args.ContainerID, args.IfName)
multusCmdDel(n, c) ==
    /\ AddIdle(n)
    /\ LockFree(n)
    /\ \E ip \in DOMAIN files[n] : files[n][ip] = c
    /\ files' = [files EXCEPT ![n] = Release(@, c)]
    /\ dHeld' = [dHeld EXCEPT ![n] = Release(@, c)]
    /\ UNCHANGED <<cache, hint, slock, cstate, dpc, dCid, dRss, dRet, dAcq>>
    /\ UNCHANGED <<mvars, multusHostKept>>

\* what the actions of the plugin leave alone, a call of ApplyNewIPRange apart
multusRest ==
    <<hNetwork, subnet, tvars, avars, oCache, kpc, kMap, kNet, kLeases, kCaches,
      kIdx, kRuns, kRet, kSkipped, svars, pvars>>

\* the single node of the fresh network
MultusNode == {"n1"}

\* the network of the documentation, 10.0.0.0 with the mask of the model
InitMultus ==
    /\ HostInitOn(ExampleSubnetIP)
    /\ TransInit
    /\ ApplyInit
    /\ CheckInit
    /\ OtherStoresEmpty
    /\ StoreInit
    /\ SweepInit
    /\ PureInit
    /\ ckv = << >>
    /\ cache = [n \in Node |-> <<>>]
    /\ files = [n \in Node |-> << >>]
    /\ hint = [n \in Node |-> NoIP]
    /\ dHeld = [n \in Node |-> << >>]
    /\ cstate = [c \in MultusContainer |-> "new"]

NextMultus ==
    \E n \in MultusNode :
        \/ \E c \in MultusContainer : multusCmdAdd(n, c) /\ UNCHANGED multusRest
        \/ multusAllocateIP(n) /\ UNCHANGED multusRest
        \/ multusApplyNewIPRange(n) /\ UNCHANGED multusRest
        \/ HostGetFree(n)
        \/ HostPut(n)
        \/ HostVerify(n)
        \/ multusAppendRangeToCache(n) /\ UNCHANGED multusRest
        \/ multusRetryGet(n) /\ UNCHANGED multusRest
        \/ \E c \in MultusContainer : multusCmdDel(n, c) /\ UNCHANGED multusRest

SpecMultus == InitMultus /\ [][NextMultus]_vars

-----------------------------------------------------------------------------
(* Specification of TransPutKey and TransDelKey with nodes that die, under
   fair scheduling *)

\* the sessions of c hold a mutex
HoldsMutex(c) == \E m \in DOMAIN cmutex : cmutex[m] = c

\* m.Lock of c is blocked or about to run
WaitsMutex(c) == tpc[c] = "lock"

\* calls of TransPutKey and TransDelKey a node makes in a run of the model
MaxMutexCalls == 1

\* the lease key the calls are about
MutexKeys == {LeaseKey(ApplyKeyDir, SubnetIP + 2, 2)}

\* a direct call of TransPutKey with noExist or without
PutCall(c, k, noExist) ==
    /\ TransIdle(c)
    /\ Cardinality(LogOf(c)) < MaxMutexCalls
    /\ TransPutEnter(c, k, c, noExist, "direct")
    /\ UNCHANGED <<ckv, cmutex, tKeys, tLog>>
    /\ UNCHANGED transRest

\* a direct call of TransDelKey
DeleteCall(c, k) ==
    /\ TransIdle(c)
    /\ Cardinality(LogOf(c)) < MaxMutexCalls
    /\ TransDelEnter(c, k, "direct")
    /\ UNCHANGED <<ckv, cmutex, tKeys, tLog>>
    /\ UNCHANGED transRest

\* the slices of keys TransDelKeys is called with
DelKeyLists ==
    { <<LeaseKey(ApplyKeyDir, SubnetIP + 2, 2), LeaseKey(ApplyKeyDir, SubnetIP + 6, 2)>> }

\* a direct call of TransDelKeys: TransDelKey for the first key of the slice
TransDelKeys(c, keys) ==
    /\ TransIdle(c)
    /\ Cardinality(LogOf(c)) < MaxMutexCalls
    /\ tKeys' = [tKeys EXCEPT ![c] = Tail(keys)]
    /\ TransDelEnter(c, Head(keys), "delkeys")
    /\ UNCHANGED <<ckv, cmutex, tLog>>
    /\ UNCHANGED transRest

\* the loop of TransDelKeys after a TransDelKey has returned: its error is
\* dropped, and the next key is deleted or TransDelKeys returns
TransDelKeysNext(c) ==
    /\ tpc[c] = "done"
    /\ tWho[c] = "delkeys"
    /\ tLog' = tLog \cup {[client |-> c, key |-> tKey[c], err |-> ErrorKind(tErr[c])]}
    /\ IF tKeys[c] = <<>>
       THEN /\ tpc' = [tpc EXCEPT ![c] = "idle"]
            /\ UNCHANGED <<tOp, tKey, tVal, tNoExist, tErr, tWho, tKeys>>
       ELSE /\ tKeys' = [tKeys EXCEPT ![c] = Tail(@)]
            /\ TransDelEnter(c, Head(tKeys[c]), "delkeys")
    /\ UNCHANGED <<ckv, cmutex>>
    /\ UNCHANGED transRest

\* the process of c dies inside a call: nothing deferred runs, the mutex key
\* stays with its session
NodeDies(c) ==
    /\ tpc[c] \in {"session", "lock", "get", "write", "delete", "unlock"}
    /\ tpc' = [tpc EXCEPT ![c] = "dead"]
    /\ UNCHANGED <<ckv, cmutex, tOp, tKey, tVal, tNoExist, tErr, tWho, tKeys, tLog>>
    /\ UNCHANGED transRest

\* the lease of the session of a dead holder expires: the coordinator
\* deletes the mutex key
SessionExpire(c) ==
    /\ tpc[c] = "dead"
    /\ HoldsMutex(c)
    /\ cmutex' = MutexRelease(cmutex, KeyToMutex(tKey[c]))
    /\ tpc' = [tpc EXCEPT ![c] = "expired"]
    /\ UNCHANGED <<ckv, tOp, tKey, tVal, tNoExist, tErr, tWho, tKeys, tLog>>
    /\ UNCHANGED transRest

\* m.Lock returns with the mutex
TransLockGranted(c) == TransLock(c) /\ cmutex' # cmutex

NextMutex ==
    \E c \in Client :
        \/ \E k \in MutexKeys, noExist \in BOOLEAN : PutCall(c, k, noExist)
        \/ \E k \in MutexKeys : DeleteCall(c, k)
        \/ \E keys \in DelKeyLists : TransDelKeys(c, keys)
        \/ TransDelKeysNext(c)
        \/ TransSession(c)
        \/ TransLock(c)
        \/ TransGet(c)
        \/ TransWrite(c)
        \/ TransDelete(c)
        \/ TransUnlock(c)
        \/ DirectReturn(c)
        \/ NodeDies(c)
        \/ SessionExpire(c)

\* a live process goes on running its call, the coordinator expires the lease
\* of a dead session, and the mutex is granted in the order of the waiters'
\* keys, so that no waiter is passed over for ever
MutexFairness ==
    \A c \in Client :
        /\ WF_vars(TransSession(c))
        /\ WF_vars(TransGet(c))
        /\ WF_vars(TransWrite(c))
        /\ WF_vars(TransDelete(c))
        /\ WF_vars(TransUnlock(c))
        /\ WF_vars(TransDelKeysNext(c))
        /\ WF_vars(SessionExpire(c))
        /\ SF_vars(TransLockGranted(c))

InitMutex ==
    /\ HostInit
    /\ TransInit
    /\ ApplyInit
    /\ CheckInit
    /\ OtherStoresEmpty
    /\ StoreInit
    /\ StoreEmpty
    /\ SweepInit
    /\ PureInit
    /\ cache = [n \in Node |-> <<>>]
    /\ \E present \in SUBSET MutexKeys : ckv = [k \in present |-> OtherNode]

SpecMutex == InitMutex /\ [][NextMutex]_vars /\ MutexFairness

-----------------------------------------------------------------------------
(* Specification of formRangeSets alone *)

\* the addresses the configured range and the cached ranges are drawn from
FormSpan == 5

\* lines of the cache file
MaxCacheLines == 2

FormRanges ==
    {r \in (SubnetIP + 1 .. SubnetIP + FormSpan) \X (SubnetIP + 1 .. SubnetIP + FormSpan) :
        r[1] <= r[2]}

FormCaches ==
    UNION {[1 .. k -> FormRanges] : k \in 0 .. MaxCacheLines}

\* the node the host-etcd plugin runs on
FormNode == "n1"

\* what formRangeSets leaves alone, a call of ApplyNewIPRange and the cache
\* file apart
formRest ==
    <<hNetwork, subnet, tvars, avars, oCache, kpc, kMap, kNet, kLeases, kCaches,
      kIdx, kRuns, kRet, kSkipped, dvars, svars, mvars>>

\* formRangeSets of both plugins on one configured range set of one range;
\* the host-etcd plugin is configured with the range of the whole subnet,
\* and with no range from the cache it calls ApplyNewIPRange
FormApply ==
    /\ ppc = "origin"
    /\ LET rs == formRangeSets(pIn.caches)
       IN  /\ pOut' = [multus |-> multusFormRangeSets(<<<<pIn.ro>>>>, pIn.caches)[1],
                       host |-> rs]
           /\ IF Len(rs) = 0
              THEN /\ HostEnter(FormNode)
                   /\ ppc' = "lease"
              ELSE /\ ppc' = "formed"
                   /\ UNCHANGED <<hpc, hTry, hRet, hCalls>>
    /\ UNCHANGED <<hkv, rev, hSnap, hBlk, hPutRev, hHeld>>
    /\ UNCHANGED <<pIn, cache, formRest>>

\* formRangeSets of the host-etcd plugin after ApplyNewIPRange: the error is
\* returned, or the block is the range set and the cache file is rewritten
\* with it
FormLeased ==
    /\ ppc = "lease"
    /\ HostIdle(FormNode)
    /\ IF hRet[FormNode].st = "ok"
       THEN LET r == <<hRet[FormNode].b, hRet[FormNode].e>>
            IN  /\ pOut' = [pOut EXCEPT !.host = <<r>>]
                /\ cache' = [cache EXCEPT ![FormNode] = <<r>>]
                /\ ppc' = "formed"
       ELSE /\ ppc' = "failed"
            /\ UNCHANGED <<pOut, cache>>
    /\ UNCHANGED <<hkv, rev, hpc, hTry, hSnap, hBlk, hPutRev, hRet, hCalls, hHeld>>
    /\ UNCHANGED <<pIn, formRest>>

InitForm ==
    /\ HostInit
    /\ TransInit
    /\ ApplyInit
    /\ CheckInit
    /\ OtherStoresEmpty
    /\ StoreInit
    /\ StoreEmpty
    /\ SweepInit
    /\ ckv = << >>
    /\ cache = [n \in Node |-> <<>>]
    /\ ppc = "origin"
    /\ pIn \in [ro : FormRanges, caches : FormCaches]
    /\ pOut = <<>>

NextForm ==
    \/ FormApply
    \/ HostGetFree(FormNode)
    \/ HostPut(FormNode)
    \/ HostVerify(FormNode)
    \/ FormLeased

SpecForm == InitForm /\ [][NextForm]_vars

-----------------------------------------------------------------------------
(* Specification of the loop of cmdDel, with Release calls that can fail *)

\* configured range sets
MaxDelRanges == 3

\* address files the container holds in the store of the network
MaxDelFiles == 2

\* the errors of Store.ReleaseByID: the lock or the removal of a file
ReleaseErrors == {"lock", "remove"}

\* return nil
NoError == <<>>

\* strings.Join(errors, ";")
RECURSIVE JoinSemicolon(_)
JoinSemicolon(errors) ==
    IF Len(errors) <= 1 THEN errors
    ELSE <<Head(errors), ";">> \o JoinSemicolon(Tail(errors))

\* a cmdDel that reports no error, whatever the releases did
DelResultNil(errors) == NoError

\* if errors != nil { return fmt.Errorf(strings.Join(errors, ";")) }; return nil
DelResult(errors) ==
    IF errors = <<>> THEN NoError ELSE JoinSemicolon(errors)

\* one turn of the loop: ipAllocator.Release for the range set at idx, which
\* removes the files of the container or fails; an error is appended
DelRelease ==
    /\ ppc = "del"
    /\ pOut.idx <= pIn.ranges
    /\ \/ pOut' = [pOut EXCEPT !.idx = @ + 1,
                               !.invoked = Append(@, pOut.idx),
                               !.files = 0]
       \/ \E e \in ReleaseErrors :
              pOut' = [pOut EXCEPT !.idx = @ + 1,
                                   !.invoked = Append(@, pOut.idx),
                                   !.failed = @ \cup {pOut.idx},
                                   !.errors = Append(@, e)]
    /\ UNCHANGED <<ppc, pIn, pureRest>>

\* the end of the loop and the return of cmdDel
DelReturn ==
    /\ ppc = "del"
    /\ pOut.idx > pIn.ranges
    /\ ppc' = "deleted"
    /\ pOut' = [pOut EXCEPT !.ret = DelResult(pOut.errors)]
    /\ UNCHANGED <<pIn, pureRest>>

InitDel ==
    /\ HostInit
    /\ TransInit
    /\ ApplyInit
    /\ CheckInit
    /\ OtherStoresEmpty
    /\ StoreInit
    /\ StoreEmpty
    /\ SweepInit
    /\ ckv = << >>
    /\ cache = [n \in Node |-> <<>>]
    /\ ppc = "del"
    /\ pIn \in [ranges : 1 .. MaxDelRanges, files : 0 .. MaxDelFiles]
    /\ pOut = [idx |-> 1, invoked |-> <<>>, failed |-> {}, errors |-> <<>>,
               files |-> pIn.files, ret |-> NoError]

NextDel == DelRelease \/ DelReturn

SpecDel == InitDel /\ [][NextDel]_vars

-----------------------------------------------------------------------------
(* Specification of what IPAMCheck and IPAMCheckLocalIPs return when a
   service they use fails *)

\* the failures met by one run of the two reconcilers
ReconcilerFailures ==
    [newFails : BOOLEAN,        \* etcdv3.New() returns nil, err
     listFails : BOOLEAN,       \* cli.Get of IPAMGetAllLease fails
     noLeases : BOOLEAN,        \* the node owns no lease
     storeFails : BOOLEAN,      \* disk.New of ipamCheckNet fails
     dockerFails : BOOLEAN,     \* client.NewClientWithOpts fails
     runtimeFails : BOOLEAN,    \* cli.ContainerList fails
     sweepStoreFails : BOOLEAN] \* disk.New of IPAMCheckLocalIPs fails

\* IPAMCheck(): the fields of etcdMultus are read before err is tested, and
\* etcdMultus is nil when New failed; the error of IPAMGetAllLease is
\* returned; ipamCheckNet returns nothing
IPAMCheckReturn(f) ==
    IF f.newFails THEN "panic"
    ELSE IF f.listFails THEN "error"
    ELSE "nil"

\* IPAMCheckLocalIPs(): the error of the docker client is returned; the
\* errors of ContainerList and disk.New are logged and the loop goes on
IPAMCheckLocalIPsReturn(f) ==
    IF f.dockerFails THEN "error" ELSE "nil"

CheckReturns ==
    /\ ppc = "reconcile"
    /\ pOut.check = "none"
    /\ pOut' = [pOut EXCEPT !.check = IPAMCheckReturn(pIn)]
    /\ UNCHANGED <<ppc, pIn, pureRest>>

SweepReturns ==
    /\ ppc = "reconcile"
    /\ pOut.sweep = "none"
    /\ pOut' = [pOut EXCEPT !.sweep = IPAMCheckLocalIPsReturn(pIn)]
    /\ UNCHANGED <<ppc, pIn, pureRest>>

InitEscalate ==
    /\ HostInit
    /\ TransInit
    /\ ApplyInit
    /\ CheckInit
    /\ OtherStoresEmpty
    /\ StoreInit
    /\ StoreEmpty
    /\ SweepInit
    /\ ckv = << >>
    /\ cache = [n \in Node |-> <<>>]
    /\ ppc = "reconcile"
    /\ pIn \in ReconcilerFailures
    /\ pOut = [check |-> "none", sweep |-> "none"]

NextEscalate == CheckReturns \/ SweepReturns

SpecEscalate == InitEscalate /\ [][NextEscalate]_vars

-----------------------------------------------------------------------------
(* Claims *)

\* C1: every lease block is owned by exactly one node (no block has been
\* granted to two nodes) and no two recorded lease blocks of the network
\* overlap.
C1_ExclusiveLeaseBlocks ==
    /\ \A n, m \in Node : n # m => hHeld[n] \cap hHeld[m] = {}
    /\ \A k, l \in DOMAIN hkv :
          k # l => ~RangesOverlap(hostKeyRange(k), hostKeyRange(l))

\* C3: when both nodes have run their first Acquire on the empty network
\* and no request to the coordinator has failed, both calls have returned a
\* block and the two blocks are different and do not overlap.
C3_RaceBothSucceedDisjoint ==
    (\A n \in Node : hCalls[n] = 1 /\ HostIdle(n) /\ hRet[n].st \in {"ok", "err"})
        => /\ \A n \in Node : hRet[n].st = "ok"
           /\ ~RangesOverlap(<<hRet["n1"].b, hRet["n1"].e>>,
                             <<hRet["n2"].b, hRet["n2"].e>>)

\* C5: the block Acquire chooses from the listed leases has exactly unit
\* addresses, overlaps no listed lease, and starts at the first gap of at
\* least unit free addresses.
C5_FirstFitBlock ==
    \A n \in Node : HostChosen(n) =>
        /\ hBlk[n][2] - hBlk[n][1] + 1 = ApplyUnit
        /\ \A r \in HostSnapLeases(n) : ~RangesOverlap(r, hBlk[n])
        /\ HasGap(HostSnapLeases(n), ApplyUnit)
               => hBlk[n][1] = FirstGapStart(HostSnapLeases(n), ApplyUnit)

\* C7: when the listed leases leave no gap of unit free addresses, Acquire
\* chooses no block, writes no key for one and returns none.
C7_NoSpaceNoBlock ==
    \A n \in Node :
        ~HasGap(HostSnapLeases(n), ApplyUnit) =>
            /\ ~HostChosen(n)
            /\ HostIdle(n) => hRet[n].st # "ok"

ApplySnapLeases(n) == {ipmaLeaseToUint32Range(k) : k \in aSnap[n]}

\* no other node has written a lease key since n listed the leases
ApplyUncontended(n) ==
    \A k \in ListPrefix(ckv, ApplyKeyDir) : k \in aSnap[n] \/ ckv[k] = n

\* C6: an Acquire that listed leases leaving a free block of 2^n addresses,
\* met no coordinator error and no write of another node, returns a block.
C6_AcquireProgress ==
    \A n \in Node :
        ( /\ ApplyIdle(n)
          /\ aRet[n].st \notin {"none", "failed"}
          /\ HasGap(ApplySnapLeases(n), 2 ^ ApplyUnitExp)
          /\ ApplyUncontended(n) )
            => aRet[n].st = "ok"

\* a call of TransPutKey that has written the key and not yet returned
PutWinnerInFlight(c, k) ==
    tpc[c] \in {"unlock", "done"} /\ tKey[c] = k /\ tErr[c] = "nil"

\* C4: TransPutKey with noExist writes only a key that is absent when it
\* writes (a present key keeps its value and the call fails with "exists");
\* of the calls for one absent key at most one succeeds, every "exists"
\* failure is matched by the one call that wrote the key, and the stored
\* value is the winner's.
C4_PutIfAbsentExclusive ==
    /\ \A c \in Client :
          (tpc[c] = "write" /\ tNoExist[c]) => tKey[c] \notin DOMAIN ckv
    /\ \A e \in tLog :
          /\ e.err = "nil" => (e.key \in DOMAIN ckv /\ ckv[e.key] = e.client)
          /\ e.err = "exists" =>
                /\ e.key \in DOMAIN ckv
                /\ \/ ckv[e.key] = OtherNode
                   \/ \E f \in tLog : f.key = e.key /\ f.err = "nil"
                   \/ \E c \in Client : PutWinnerInFlight(c, e.key)
    /\ \A e, f \in tLog :
          (e.key = f.key /\ e.err = "nil" /\ f.err = "nil") => e.client = f.client
    /\ \A k \in DOMAIN ckv :
          ckv[k] # OtherNode =>
              \/ [client |-> ckv[k], key |-> k, err |-> "nil"] \in tLog
              \/ PutWinnerInFlight(ckv[k], k)

\* C4 witness: two clients have called for the same absent key; one has won
\* and the other has failed with "exists"; a third call, for a key another
\* node had written, has failed with "exists" too.
C4_Witness ==
    \E e, f, g \in tLog :
        /\ e.key = f.key /\ e.client # f.client
        /\ e.err = "nil" /\ f.err = "exists"
        /\ ckv[e.key] = e.client
        /\ g.err = "exists" /\ ckv[g.key] = OtherNode

\* the ranges of the lease keys of a network that carry the ID of node n
OwnedLeaseRangesOf(n, network) ==
    {ipmaLeaseToUint32Range(k) :
        k \in {j \in ListPrefix(ckv, NetworkKeyDir(network)) : ckv[j] = n}}

OwnedLeaseRanges(n) == OwnedLeaseRangesOf(n, NetworkName)

\* node n has run a reconciliation pass to its end and is outside the next
CheckPassed(n) ==
    /\ kRuns[n] >= 1
    /\ CheckIdle(n)
    /\ kRet[n] = "nil"
    /\ kSkipped[n] = {}

\* C8: once a reconciliation pass of a node has finished, the ranges of the
\* lease keys the node owns in the coordinator and the ranges in its cache
\* file are the same, line for line, whatever leases and cache entries the
\* pass started from.
C8_CacheLeaseParity ==
    \A n \in Node :
        CheckPassed(n) =>
            /\ SeqToSet(cache[n]) = OwnedLeaseRanges(n)
            /\ Len(cache[n]) = Cardinality(OwnedLeaseRanges(n))

\* C9: once a reconciliation pass of a node has finished, a range still in
\* the cache file has its lease key in the coordinator, under the lease
\* directory of the network and with the ID of the node (an entry whose key
\* could not be written is no longer in the file); this with or without a
\* lease owned by the node when the pass started.
C9_OrphanedCacheRepaired ==
    \A n \in Node :
        CheckPassed(n) =>
            \A i \in 1 .. Len(cache[n]) :
                LET key == ipamSimpleRangeToLease(ApplyKeyDir, cache[n][i])
                IN  key \in DOMAIN ckv /\ ckv[key] = n

\* C2: no IP is assigned by ADD on two nodes at once: the addresses that
\* hold an assignment written by ADD on one node, and not released by DEL
\* since, are disjoint from those of every other node.
C2_NoSharedIP ==
    \A n, m \in Node :
        n # m => DOMAIN dHeld[n] \cap DOMAIN dHeld[m] = {}

\* C10: the sweep removes an assignment file only when the file, read under
\* the store lock, names the ID the runtime did not list and that container
\* is still not listed; so the assignment of a container that is alive, made
\* by ADD and not released by DEL, is in its file, also when it was written
\* to the address between the liveness check and the removal.
C10_SweepRemovesOnlyStale ==
    /\ \A d \in sLog : d.removed => (d.curID = d.id /\ ~d.listed)
    /\ \A n \in Node : \A ip \in DOMAIN dHeld[n] :
          cstate[dHeld[n][ip]] = "alive" =>
              (ip \in DOMAIN files[n] /\ files[n][ip] = dHeld[n][ip])

\* C10 witness: one sweep has removed the file of a container that is gone,
\* and has left another file alone that a new container had written to the
\* same address after the liveness check of the old one; the new assignment
\* is in place.
C10_Witness ==
    \E d, e \in sLog :
        /\ d.removed
        /\ ~e.removed /\ e.curID # NoID /\ e.curID # e.id
        /\ d.node = e.node
        /\ e.f \in DOMAIN files[e.node] /\ files[e.node][e.f] = e.curID
        /\ cstate[e.curID] = "alive"

\* C11: an ADD that has returned success has returned the address of the
\* range: when allocation for the range failed, with whatever error, ADD has
\* returned an error.
C11_AddFailsOnAnyError ==
    \A n \in Node : dRet[n].st = "ok" => dRet[n].ip # NoIP

\* the block the last ApplyNewIPRange call of node n was granted
LastLeased(n) == <<hRet[n].b, hRet[n].e>>

\* C12: an ADD calls the lease manager at most 3 times, and once the ADD is
\* over the block it was granted after "no IP addresses available" is a
\* line of the cache file of the node.
C12_LeaseRetryRecorded ==
    \A n \in Node :
        /\ dAcq[n] <= 3
        /\ (AddIdle(n) /\ hRet[n].st = "ok") =>
               LastLeased(n) \in SeqToSet(cache[n])

\* C13: the range read back from the lease key written for a SimpleRange is
\* that SimpleRange, in the key format of multus-ipam and in that of
\* host-etcd.
C13_LeaseKeyRoundTrip ==
    ppc = "key" => (pOut.cli = pIn /\ pOut.host = pIn)

\* the j-th lease block of the subnet, from its first assignable address
LeaseBlock(j) ==
    <<FirstAssignable + (j - 1) * ApplyUnit, FirstAssignable + j * ApplyUnit - 1>>

\* n is the single node of the network, no other node has called cmdAdd,
\* every cmdAdd of n returned an address, no cmdDel has been called on n and
\* every block ApplyNewIPRange returned to n is a line of its cache
SoleSequentialAdds(n) ==
    /\ n \in MultusNode
    /\ \A m \in Node \ {n} : AddIdle(m) /\ mHist[m] = <<>>
    /\ \A k \in 1 .. Len(mHist[n]) : mHist[n][k].st = "ok"
    /\ Cardinality(DOMAIN files[n]) = Len(mHist[n])
    /\ hHeld[n] \subseteq SeqToSet(cache[n])

\* C14: on a fresh network with one node, the k-th cmdAdd for a new container
\* returns the k-th assignable address of the subnet; it acquires a lease
\* exactly when the blocks held are used up (the first call and the call
\* after each full block), the cache then holds the blocks from the first
\* assignable address on, and between the calls the coordinator holds one
\* key for each of them
C14_FreshNetworkSequence ==
    \A n \in Node :
        SoleSequentialAdds(n) =>
            /\ \A k \in 1 .. Len(mHist[n]) :
                   /\ mHist[n][k].ip = FirstAssignable + k - 1
                   /\ mHist[n][k].acq = (IF (k - 1) % ApplyUnit = 0 THEN 1 ELSE 0)
                   /\ mHist[n][k].cache =
                          [j \in 1 .. ((k - 1) \div ApplyUnit + 1) |-> LeaseBlock(j)]
            /\ AddIdle(n) => DOMAIN hkv = SeqToSet(cache[n])

\* an Acquire of n that has listed the leases and has not yet come to the end
\* of its write step
ListedNotWritten(n) ==
    apc[n] = "write" /\ tpc[n] \in {"session", "lock", "get", "write"}

\* C15: between the listing of an Acquire and its own write no other node
\* writes a lease key of the network (the listing, the choice and the write
\* are made under one hold of the directory mutex).
C15_NoWriteBetweenListAndPut ==
    \A n \in Node : ListedNotWritten(n) => ApplyUncontended(n)

\* C16: a node that holds the directory mutex eventually holds it no more,
\* whether its TransPutKey or TransDelKey call returns (with or without an
\* error) or the node dies and its session expires; and a node waiting in
\* m.Lock eventually gets the mutex, unless Lock itself fails or the node
\* dies.
C16_MutexEventuallyReleased ==
    \A c \in Client :
        /\ HoldsMutex(c) ~> ~HoldsMutex(c)
        /\ WaitsMutex(c) ~>
               (HoldsMutex(c) \/ tErr[c] = "lock" \/ tpc[c] = "dead")

\* a node died holding the mutex, its session expired and another node, which
\* had to wait, holds the mutex now
C16_Witness ==
    \E c \in Client, d \in Client :
        /\ tpc[c] = "expired"
        /\ d # c
        /\ KeyToMutex(tKey[c]) \in DOMAIN cmutex
        /\ cmutex[KeyToMutex(tKey[c])] = d

\* the clipped intersections of the range ro with the cached ranges that
\* overlap it, in the order of the cache
RECURSIVE ClippedIntersections(_, _)
ClippedIntersections(ro, caches) ==
    IF caches = <<>> THEN <<>>
    ELSE (IF RangesOverlap(ro, Head(caches))
          THEN <<<<Max(ro[1], Head(caches)[1]), Min(ro[2], Head(caches)[2])>>>>
          ELSE <<>>)
         \o ClippedIntersections(ro, Tail(caches))

\* C17: formRangeSets returns for a configured range exactly its clipped
\* intersections with the cached ranges that overlap it, a cached range that
\* strictly contains the configured range included, and nothing for the
\* cached ranges that do not overlap it.
C17_FormRangeSetsIntersections ==
    ppc = "formed" =>
        /\ pOut.multus = ClippedIntersections(pIn.ro, pIn.caches)
        /\ pOut.host = ClippedIntersections(OriginRange, pIn.caches)

\* C18: cmdDel has called Release for every configured range set, in order,
\* whatever the earlier calls returned, when it returns; it returns an error
\* exactly when a Release failed, and the error is the failures joined with
\* ";".
C18_DelReleasesEveryRange ==
    ppc = "deleted" =>
        /\ pOut.invoked = [i \in 1 .. pIn.ranges |-> i]
        /\ (pOut.ret # NoError) <=> (pOut.failed # {})
        /\ Len(pOut.errors) = Cardinality(pOut.failed)
        /\ pOut.ret = JoinSemicolon(pOut.errors)

\* the Release of the first range failed, that of a later range was called
\* and removed the files, another failed, and cmdDel returned both failures
C18_Witness ==
    /\ ppc = "deleted"
    /\ pIn.ranges = 3
    /\ pIn.files > 0
    /\ pOut.files = 0
    /\ pOut.failed = {1, 3}
    /\ Len(pOut.ret) = 3
    /\ pOut.ret[2] = ";"

\* C19: whatever fails (the coordinator client, the lease listing, the
\* container runtime, a store), IPAMCheck and IPAMCheckLocalIPs return no
\* error and do not crash.
C19_ReconcilerNeverEscalates ==
    ppc = "reconcile" =>
        /\ pOut.check \in {"none", "nil"}
        /\ pOut.sweep \in {"none", "nil"}

\* the rollback of a failed cache write for the lease at hand has returned
\* without error
RollbackDone(n) ==
    kpc[n] = "leasedel" /\ tpc[n] = "done" /\ tErr[n] = "nil"

\* C20: when the cache write for a lease L of the node fails, the key of L is
\* deleted from the coordinator: once the rollback has returned without
\* error, the node owns no lease key for the range of L under the lease
\* directory of the network, hence no lease without a cache entry.
C20_FailedAppendRollsBack ==
    \A n \in Node :
        RollbackDone(n) =>
            kLeases[n][kIdx[n]] \notin OwnedLeaseRangesOf(n, kNet[n])

\* the leases of the slice the first loop of ipamCheckNet has dealt with
LeasesScanned(n) ==
    IF kpc[n] = "leases" THEN kIdx[n] - 1
    ELSE IF kpc[n] = "leasedel" THEN kIdx[n]
    ELSE IF kpc[n] \in {"reload", "caches", "cacheput"} THEN Len(kLeases[n])
    ELSE 0

\* C21: once the first loop of the reconciliation has dealt with a lease L of
\* the node, the cache file holds no entry that overlaps L without matching
\* it, wherever the entry stood relative to a matching one; and while the
\* loop runs, an entry matching L that the file held is still in it.
C21_OverlappingCacheEntriesDeleted ==
    \A n \in Node :
        \A j \in 1 .. LeasesScanned(n) :
            LET L == kLeases[n][j]
                lines == LoadCache(n, kNet[n])
            IN  /\ \A i \in 1 .. Len(lines) :
                       Overlaps(lines[i], L) => Match(lines[i], L)
                /\ (kpc[n] \in {"leases", "leasedel"} /\ L \in SeqToSet(kCaches[n]))
                       => L \in SeqToSet(lines)

\* the lease blocks whose key in the coordinator carries the name of node n
HostHeldBlocks(n) == {hostKeyRange(k) : k \in {j \in DOMAIN hkv : hkv[j] = n}}

\* C22: at every state reached by ADD operations, each line of the cache
\* file of a node is a lease block whose key the node has written to the
\* coordinator and still holds; a failed acquisition adds no line.
C22_CacheLinesAreHeldLeases ==
    \A n \in Node : SeqToSet(cache[n]) \subseteq HostHeldBlocks(n)

\* the range lies within [network + 1, broadcast - 1]
InUsableRange(r) == U32Le(subnet + 1, r[1]) /\ U32Le(r[2], UsableLast)

\* C23: every block ApplyNewIPRange returns, and every lease key it writes,
\* lies within the usable range of the subnet, from the address after the
\* network address to the one before the broadcast address.
C23_BlockWithinUsableRange ==
    /\ \A n \in Node : hRet[n].st = "ok" => InUsableRange(LastLeased(n))
    /\ \A k \in DOMAIN hkv : InUsableRange(hostKeyRange(k))

\* C24: when the reading of the lease list fails inside ApplyNewIPRange, the
\* call ends there with an error for its caller, before any key is written.
C24_ListFailureIsReturned ==
    [][\A n \in Node :
           HostGetFreeFails(n) => (hpc'[n] = "idle" /\ hRet'[n].st \in {"err", "fail"})]_vars

\* C25: every key the reconciler hands to the coordinator for a write or a
\* delete lies in <rootKey>/lease/<networkName>, the directory Acquire and
\* ListOwn use, in every invocation of IPAMCheck.
C25_ReconcilerKeyLayout ==
    \A n \in Node :
        (tWho[n] = "check" /\ ~TransIdle(n)) =>
            tKey[n].dir = NetworkKeyDir(kNet[n])

\* C26: an assignment file whose runtime query failed in a sweep is not
\* removed by that sweep: the sweep goes on to its next entry.
C26_FailedQueryNeverDeletes ==
    \A d, e \in sLog :
        (d.failed /\ e.node = d.node /\ e.f = d.f /\ e.run = d.run) => ~e.removed

\* C26 witness: a sweep is over in which the query for the file of a
\* container that is gone failed, and the file is still there with that ID,
\* while the same sweep removed another file.
C26_Witness ==
    \E d, e \in sLog :
        /\ d.failed /\ cstate[d.id] = "gone"
        /\ SweepIdle(d.node) /\ sRuns[d.node] = d.run
        /\ d.f \in DOMAIN files[d.node] /\ files[d.node][d.f] = d.id
        /\ e.removed /\ e.node = d.node /\ e.run = d.run

\* the keys of the network whose value is the ID of node n
HostKeysOf(n) == {k \in DOMAIN hkv : hkv[k] = n}

\* C27: once the calls of ApplyNewIPRange of a node have returned, the keys
\* carrying its ID are the keys of the blocks that were returned to it (an
\* attempt that lost or failed has left none), and a block returned to a node
\* still has that node as its owner (no call of another node has changed it).
C27_OnlyReturnedBlockWritten ==
    \A n \in Node :
        /\ HostIdle(n) => HostKeysOf(n) \subseteq hHeld[n]
        /\ \A b \in hHeld[n] : b \in DOMAIN hkv /\ hkv[b] = n

\* the keys of the listing of node n that lie in the lease directory of the
\* network the call is for
ApplySnapOwnNetwork(n) == {k \in aSnap[n] : k.dir = ApplyKeyDir}

\* C28: the block IPAMApplyIPRange chooses for a network is the block the
\* lease keys of that network alone give; the keys of a network whose name
\* starts with the name of this one are not taken into account.
C28_OnlyOwnNetworkKeys ==
    \A n \in Node :
        apc[n] = "write" =>
            LET r == ipamGetFreeIPRange(ApplySnapOwnNetwork(n), ApplyUnitExp)
            IN  /\ aSnap[n] = ApplySnapOwnNetwork(n)
                /\ ~r.err /\ aRs[n] = <<r.b, r.e>>

\* the lease blocks of node n: those ApplyNewIPRange has returned to it and
\* those whose key carries its ID
LeaseBlocksOf(n) == hHeld[n] \cup HostHeldBlocks(n)

\* C29: the address an ADD has returned lies in the configured range and in
\* a lease block of the node, also when it was taken from a block acquired in
\* the same ADD.
C29_AddressWithinRangeAndLease ==
    \A n \in Node :
        (dRet[n].st = "ok" /\ dRet[n].ip # NoIP) =>
            /\ Contains(OriginRange, dRet[n].ip)
            /\ \E b \in LeaseBlocksOf(n) : Contains(b, dRet[n].ip)

====
